---------------------------- MODULE Spec2Model ----------------------------
(***************************************************************************)
(* The per-region CDC Delegate of components/cdc/src/delegate.rs, as a     *)
(* state machine.  The Delegate is driven by one single-threaded worker,   *)
(* so every public method is one atomic action.  The state is the fields   *)
(* of `Delegate`, the process-wide downstream id allocator, and the        *)
(* contents of the downstreams' channels.  The id allocator under racing   *)
(* threads (SpecAlloc) and the LockManager of server/lock_manager/mod.rs   *)
(* with its waiter manager (SpecLock) are specifications of their own.     *)
(*                                                                         *)
(* Option<T> is modelled as a sequence of length 0 (None) or 1 (Some).     *)
(* Byte strings are TLA+ strings; "" is the empty byte string.             *)
(***************************************************************************)
EXTENDS Integers, Sequences, FiniteSets, TLC

(***************************************************************************)
(* Bounds of the model.                                                    *)
(***************************************************************************)
\* The delegate is observed for this many operations.
MaxOps == 5

\* A scan handed to the scan decoder has at most this many entries.
MaxScanLen == 2

\* Threads that create downstreams, and the calls they make in all.
MaxThreads == 2
MaxCalls == 4

\* The LockManager is observed for this many wait_for and wake_up calls.
MaxLockCalls == 3

\* The region id the delegate is created for (Delegate::new(region_id)).
RegionId == 1

None == <<>>
Some(x) == <<x>>
IsSome(o) == Len(o) = 1
IsNone(o) == Len(o) = 0
Unwrap(o) == o[1]

Min(a, b) == IF a <= b THEN a ELSE b

\* The ids Downstream::new can have handed out.
Ids == 0 .. (MaxOps - 1)

(***************************************************************************)
(* Inputs.                                                                 *)
(***************************************************************************)
\* RegionEpoch { conf_ver, version } of a subscribing downstream.
Epochs ==
    { [conf_ver |-> 2, version |-> 1],
      [conf_ver |-> 1, version |-> 2],
      [conf_ver |-> 2, version |-> 2] }

\* The Region handed to on_region_ready (tests: id 1, version 2, conf_ver 2).
Regions == { [id |-> RegionId, epoch |-> [conf_ver |-> 2, version |-> 2]] }

\* Error headers: the three region errors the classifier knows, and one it
\* does not (a congested / server-is-busy error).
KnownErrorKinds == {"RegionNotFound", "NotLeader", "EpochNotMatch"}
ErrorKinds == KnownErrorKinds \cup {"Other"}
Err(kind, regions) == [kind |-> kind, current_regions |-> regions]

Timestamps == 1 .. 4
Keys == {"a", "b"}

(***************************************************************************)
(* Wire schema: ChangeDataEvent { events: [Event] },                       *)
(* Event { region_id, index, event: oneof }.                               *)
(***************************************************************************)
EventDefault == [region_id |-> 0, index |-> 0, event |-> None]

\* Mutant: region_id is left at its default.
ChangeDataDefaultRegion(region_id, index, payload) ==
    [events |-> << [region_id |-> 0, index |-> index,
                    event |-> Some(payload)] >>]

ChangeData(region_id, index, payload) ==
    [events |-> << [region_id |-> region_id, index |-> index,
                    event |-> Some(payload)] >>]

ErrorPayload(kind, regions) ==
    [type |-> "Error", kind |-> kind, current_regions |-> regions]
ResolvedTsPayload(ts) == [type |-> "ResolvedTs", resolved_ts |-> ts]
EntriesPayload(rows) == [type |-> "Entries", entries |-> rows]

\* EventRow::default(): every field zero / empty, both enums Unknown.
EventRowDefault ==
    [start_ts |-> 0, commit_ts |-> 0, key |-> "", value |-> "",
     op_type |-> "Unknown", r_type |-> "Unknown"]

(***************************************************************************)
(* State.                                                                  *)
(***************************************************************************)
VARIABLES
    region,       \* Delegate.region: Option<Region>
    downstreams,  \* Delegate.downstreams: Vec<Downstream>
    resolver,     \* Delegate.resolver: Option<Resolver>
    pending,      \* Delegate.pending: Option<Pending>
    enabled,      \* Delegate.enabled: Arc<AtomicBool>
    failed,       \* Delegate.failed
    next_id,      \* DOWNSTREAM_ID_ALLOC
    delivered,    \* envelopes accepted by the channels, in send order
    dropped,      \* ids of the downstreams whose receiving side is gone
    panicked,     \* the worker thread has panicked (assert!, panic!, unwrap)
    ret,          \* the value the last unsubscribe returned
    steps,        \* the number of operations invoked so far
    op,           \* the name of the operation invoked last
    last_gone,    \* history: an unsubscribe removed the last active downstream
    rejected,     \* history: ids turned away by subscribe on an Active delegate
    new_calls,    \* history: the calls of DownstreamID::new made by threads
    waiter_count,     \* LockManager.waiter_count: Arc<AtomicUsize>
    waiter_mgr_tasks, \* tasks in flight to the waiter manager worker
    detector_tasks,   \* tasks scheduled on the deadlock detector worker
    wait_table,       \* the waiters the waiter manager holds
    callers           \* the threads inside LockManager::wait_for

vars == << region, downstreams, resolver, pending, enabled, failed, next_id,
           delivered, dropped, panicked, ret, steps, op, last_gone,
           rejected, new_calls, waiter_count, waiter_mgr_tasks,
           detector_tasks, wait_table, callers >>

delegate == << region, downstreams, resolver, pending, enabled, failed >>

\* The state of the LockManager and of its two workers.
lock_manager ==
    << waiter_count, waiter_mgr_tasks, detector_tasks, wait_table, callers >>

\* The envelopes channel `id` received, in order.
RECURSIVE SinkOf(_, _)
SinkOf(log, id) ==
    IF log = <<>> THEN <<>>
    ELSE LET rest == SinkOf(Tail(log), id)
         IN  IF Head(log).to = id THEN <<Head(log).data>> \o rest ELSE rest

IdsOf(ds) == { ds[i].id : i \in 1 .. Len(ds) }



(***************************************************************************)
(* Downstream.                                                             *)
(***************************************************************************)
\* Downstream::new: the id comes from DOWNSTREAM_ID_ALLOC.fetch_add(1).
DownstreamNew(id, epoch) == [id |-> id, region_epoch |-> epoch]

\* Downstream::sink: unbounded_send fails when the receiver is gone; the
\* failure is logged and ignored.
Sink(log, d, change_data) ==
    IF d.id \in dropped THEN log
    ELSE Append(log, [to |-> d.id, data |-> change_data])

(***************************************************************************)
(* Delegate::error_event: the error classifier.                            *)
(***************************************************************************)
\* The branch that ends in panic!("region met unknown error ...").
ErrorEventPanics(err) == err.kind \notin KnownErrorKinds

error_event(err) ==
    ChangeData(RegionId, 0, ErrorPayload(err.kind, err.current_regions))

(***************************************************************************)
(* Delegate::broadcast: to the pending downstreams while the pending       *)
(* buffer exists, to the active ones afterwards, in list order.            *)
(***************************************************************************)
\* Mutant: the active list is served whatever the phase.
BroadcastTargetsActiveList(pend, ds) == ds

BroadcastTargets(pend, ds) ==
    IF IsSome(pend) THEN Unwrap(pend).downstreams ELSE ds

\* Mutant: only the first downstream of the list is served.
SendFirstOnly(log, ds, change_data) ==
    IF ds = <<>> THEN log ELSE Sink(log, Head(ds), change_data)

\* Mutant: the list is served from its end.
RECURSIVE SendAllReversed(_, _, _)
SendAllReversed(log, ds, change_data) ==
    IF ds = <<>> THEN log
    ELSE Sink(SendAllReversed(log, Tail(ds), change_data), Head(ds),
              change_data)

\* Mutant: the loop gives up at the first send that fails.
RECURSIVE SendAllStopsAtDropped(_, _, _)
SendAllStopsAtDropped(log, ds, change_data) ==
    IF ds = <<>> \/ Head(ds).id \in dropped THEN log
    ELSE SendAllStopsAtDropped(Sink(log, Head(ds), change_data), Tail(ds),
                               change_data)

RECURSIVE SendAll(_, _, _)
SendAll(log, ds, change_data) ==
    IF ds = <<>> THEN log
    ELSE SendAll(Sink(log, Head(ds), change_data), Tail(ds), change_data)

\* Mutant: the pending downstreams are forgotten.
BroadcastActiveOnly(log, pend, ds, change_data) ==
    SendAll(log, ds, change_data)

broadcast(log, pend, ds, change_data) ==
    SendAll(log, BroadcastTargets(pend, ds), change_data)

(***************************************************************************)
(* compare_region_epoch(epoch, region, check_conf_ver, check_ver,          *)
(* include_region = true): raftstore code outside this source tree.  Each  *)
(* counter is compared when its flag is set; a stale one yields            *)
(* EpochNotMatch carrying the current region.                              *)
(***************************************************************************)
CompareRegionEpochStale(epoch, reg, check_conf_ver, check_ver) ==
    \/ check_conf_ver /\ epoch.conf_ver < reg.epoch.conf_ver
    \/ check_ver /\ epoch.version < reg.epoch.version

\* Mutant: subscribe asks for the conf_ver to be checked as well.
EpochIsStaleCheckConfVer(epoch, reg) ==
    CompareRegionEpochStale(epoch, reg, TRUE, TRUE)

\* The call in subscribe: check_conf_ver = false, check_ver = true.
EpochIsStale(epoch, reg) == CompareRegionEpochStale(epoch, reg, FALSE, TRUE)

CompareRegionEpochErr(reg) == Err("EpochNotMatch", <<reg.id>>)

(***************************************************************************)
(* Delegate::subscribe on a delegate whose region is set.  Returns the new *)
(* downstream list and channel log.                                        *)
(***************************************************************************)
\* Mutant: the early return after the error is missing.
SubscribeReadyNoReturn(ds, log, reg, d) ==
    IF EpochIsStale(d.region_epoch, reg)
    THEN [downstreams |-> Append(ds, d),
          log |-> Sink(log, d, error_event(CompareRegionEpochErr(reg)))]
    ELSE [downstreams |-> Append(ds, d), log |-> log]

SubscribeReady(ds, log, reg, d) ==
    IF EpochIsStale(d.region_epoch, reg)
    THEN [downstreams |-> ds,
          log |-> Sink(log, d, error_event(CompareRegionEpochErr(reg)))]
    ELSE [downstreams |-> Append(ds, d), log |-> log]

\* One more operation is invoked.
Tick(name) == steps < MaxOps /\ steps' = steps + 1 /\ op' = name

\* Downstream::new followed by Delegate::subscribe.
subscribe(epoch) ==
    /\ ~panicked
    /\ Tick("subscribe")
    /\ UNCHANGED << new_calls, lock_manager >>
    /\ LET d == DownstreamNew(next_id, epoch) IN
       /\ next_id' = next_id + 1
       /\ IF IsSome(region)
          THEN LET r == SubscribeReady(downstreams, delivered, Unwrap(region), d) IN
               /\ downstreams' = r.downstreams
               /\ delivered' = r.log
               /\ pending' = pending
               /\ rejected' = IF EpochIsStale(epoch, Unwrap(region))
                              THEN rejected \cup {d.id} ELSE rejected
          ELSE /\ pending' = Some([Unwrap(pending) EXCEPT
                                     !.downstreams = Append(@, d)])
               /\ UNCHANGED << downstreams, delivered, rejected >>
    /\ UNCHANGED << region, resolver, enabled, failed, dropped, panicked,
                    ret, last_gone >>

(***************************************************************************)
(* Delegate::unsubscribe.                                                  *)
(***************************************************************************)
\* retain(): the downstream with this id gets the error, if one was given,
\* and is removed.
RECURSIVE RetainSend(_, _, _, _)
RetainSend(log, ds, id, change_data_error) ==
    IF ds = <<>> THEN log
    ELSE LET d == Head(ds)
             l == IF d.id = id /\ IsSome(change_data_error)
                  THEN Sink(log, d, Unwrap(change_data_error)) ELSE log
         IN  RetainSend(l, Tail(ds), id, change_data_error)

Retain(ds, id) == SelectSeq(ds, LAMBDA d : d.id # id)

\* Mutant: the downstream that stays behind alone counts as gone too.
UnsubscribeIsLastOffByOne(pend, ds) == Len(ds) <= 1

\* let is_last = self.downstreams.is_empty();
UnsubscribeIsLast(pend, ds) == ds = <<>>

\* err is an Option<Error>.
unsubscribe(id, err) ==
    /\ ~panicked
    /\ id < next_id
    /\ Tick("unsubscribe")
    /\ UNCHANGED << new_calls, lock_manager >>
    /\ IF IsSome(err) /\ ErrorEventPanics(Unwrap(err))
       THEN /\ panicked' = TRUE
            /\ UNCHANGED << delegate, next_id, delivered, dropped, ret,
                            last_gone, rejected >>
       ELSE LET change_data_error ==
                    IF IsSome(err) THEN Some(error_event(Unwrap(err))) ELSE None
                list == BroadcastTargets(pending, downstreams)
                kept == Retain(list, id)
                pend == IF IsSome(pending)
                        THEN Some([Unwrap(pending) EXCEPT !.downstreams = kept])
                        ELSE pending
                ds == IF IsSome(pending) THEN downstreams ELSE kept
                is_last == UnsubscribeIsLast(pend, ds)
            IN  /\ delivered' = RetainSend(delivered, list, id, change_data_error)
                /\ pending' = pend
                /\ downstreams' = ds
                /\ enabled' = IF is_last THEN FALSE ELSE enabled
                /\ last_gone' = (last_gone \/ (IsNone(pending) /\ is_last
                                               /\ id \in IdsOf(downstreams)))
                /\ ret' = is_last
                /\ UNCHANGED << region, resolver, failed, next_id, dropped,
                                panicked, rejected >>

(***************************************************************************)
(* Resolver (crate resolved_ts, outside this source tree): the lock        *)
(* tracker.  locks is the set of tracked (start_ts, key); resolved_ts is   *)
(* the value last returned by resolve (0: none yet).                       *)
(***************************************************************************)
ResolverNew(locks, init) == [locks |-> locks, resolved_ts |-> 0, init |-> init]

TrackLock(r, start_ts, key) == [r EXCEPT !.locks = @ \cup {<<start_ts, key>>}]

\* A no-op when (start_ts, key) is not tracked.
UntrackLock(r, start_ts, commit_ts, key) ==
    [r EXCEPT !.locks = @ \ {<<start_ts, key>>}]

MinLockTs(r, min_ts) ==
    IF r.locks = {} THEN min_ts
    ELSE CHOOSE t \in {l[1] : l \in r.locks} :
             \A l \in r.locks : t <= l[1]

\* resolve(min_ts): Option<TimeStamp>, and the resolver afterwards.
Resolve(r, min_ts) ==
    LET new == Min(min_ts, MinLockTs(r, min_ts)) IN
    IF r.init /\ new > r.resolved_ts
    THEN [ts |-> Some(new), resolver |-> [r EXCEPT !.resolved_ts = new]]
    ELSE [ts |-> None, resolver |-> r]

ResolverInputs ==
    { ResolverNew({}, TRUE),
      ResolverNew({<<2, "a">>, <<3, "b">>}, TRUE),
      ResolverNew({}, FALSE) }

MinTsInputs == {2, 4}

(***************************************************************************)
(* MVCC records.  An encoded key is the raw key and, in the write and      *)
(* default CF, a timestamp suffix.  A value in the write CF parses to a    *)
(* WriteRef, a value in the lock CF to a Lock.                             *)
(***************************************************************************)
EncodedKey(raw, ts) == [raw |-> raw, ts |-> ts]

WriteRec(write_type, start_ts, short_value) ==
    [write_type |-> write_type, start_ts |-> start_ts,
     short_value |-> short_value]

LockRec(lock_type, ts, short_value) ==
    [lock_type |-> lock_type, ts |-> ts, short_value |-> short_value]

\* decode_write: (skip, row).
decode_write(key, write, row) ==
    IF write.write_type \notin {"Put", "Delete", "Rollback"}
    THEN [skip |-> TRUE, row |-> row]
    ELSE LET op_type == CASE write.write_type = "Put" -> "Put"
                          [] write.write_type = "Delete" -> "Delete"
                          [] OTHER -> "Unknown"
             r_type == IF write.write_type = "Rollback"
                       THEN "Rollback" ELSE "Commit"
             commit_ts == IF write.write_type = "Rollback"
                          THEN 0 ELSE Unwrap(key.ts)
         IN  [skip |-> FALSE,
              row |-> [row EXCEPT
                         !.start_ts = write.start_ts,
                         !.commit_ts = commit_ts,
                         !.key = key.raw,
                         !.op_type = op_type,
                         !.r_type = r_type,
                         !.value = IF IsSome(write.short_value)
                                   THEN Unwrap(write.short_value) ELSE @]]

\* Mutant: a lock of any type is decoded, none is skipped.
DecodeLockSkipsNothing(key, lock, row) ==
    [skip |-> FALSE,
     row |-> [row EXCEPT
                !.start_ts = lock.ts,
                !.key = key.raw,
                !.op_type = IF lock.lock_type \in {"Put", "Delete"}
                            THEN lock.lock_type ELSE "Unknown",
                !.r_type = "Prewrite",
                !.value = IF IsSome(lock.short_value)
                          THEN Unwrap(lock.short_value) ELSE @]]

\* decode_lock: (skip, row).
decode_lock(key, lock, row) ==
    IF lock.lock_type \notin {"Put", "Delete"}
    THEN [skip |-> TRUE, row |-> row]
    ELSE [skip |-> FALSE,
          row |-> [row EXCEPT
                     !.start_ts = lock.ts,
                     !.key = key.raw,
                     !.op_type = lock.lock_type,
                     !.r_type = "Prewrite",
                     !.value = IF IsSome(lock.short_value)
                               THEN Unwrap(lock.short_value) ELSE @]]

\* Mutant: the value of the default CF is thrown away.
DecodeDefaultDropsValue(value, row) == row

decode_default(value, row) ==
    IF value # "" THEN [row EXCEPT !.value = value] ELSE row

\* set_event_row_type
set_event_row_type(row, ty) == [row EXCEPT !.r_type = ty]

(***************************************************************************)
(* TxnEntry of a snapshot scan: Prewrite { default, lock } or              *)
(* Commit { default, write }, each a (key, value) pair; None ends a scan.  *)
(***************************************************************************)
TxnPrewrite(default_value, key, lock) ==
    [tag |-> "Prewrite", default |-> default_value, key |-> key, lock |-> lock]

TxnCommit(default_value, key, write) ==
    [tag |-> "Commit", default |-> default_value, key |-> key, write |-> write]

\* Mutant: a rolled-back write is sent like a committed one.
RECURSIVE ScanRowsKeepsRollback(_)
ScanRowsKeepsRollback(entries) ==
    IF entries = <<>> THEN <<>>
    ELSE LET entry == Head(entries)
             rest == ScanRowsKeepsRollback(Tail(entries))
         IN  IF IsNone(entry)
             THEN <<set_event_row_type(EventRowDefault, "Initialized")>> \o rest
             ELSE LET e == Unwrap(entry) IN
                  IF e.tag = "Prewrite"
                  THEN LET r == decode_lock(e.key, e.lock, EventRowDefault) IN
                       IF r.skip THEN rest
                       ELSE <<decode_default(e.default, r.row)>> \o rest
                  ELSE LET r == decode_write(e.key, e.write, EventRowDefault)
                           row == decode_default(e.default, r.row)
                       IN  IF r.skip THEN rest
                           ELSE <<set_event_row_type(row, "Committed")>> \o rest

\* Mutant: the end-of-scan marker is put in front of the rows.
RECURSIVE ScanRowsMarkerFirst(_)
ScanRowsMarkerFirst(entries) ==
    IF entries = <<>> THEN <<>>
    ELSE LET entry == Head(entries)
             rest == ScanRowsMarkerFirst(Tail(entries))
         IN  IF IsNone(entry)
             THEN rest \o <<set_event_row_type(EventRowDefault, "Initialized")>>
             ELSE LET e == Unwrap(entry) IN
                  IF e.tag = "Prewrite"
                  THEN LET r == decode_lock(e.key, e.lock, EventRowDefault) IN
                       IF r.skip THEN rest
                       ELSE rest \o <<decode_default(e.default, r.row)>>
                  ELSE LET r == decode_write(e.key, e.write, EventRowDefault)
                           row == decode_default(e.default, r.row)
                       IN  IF r.skip \/ row.r_type = "Rollback" THEN rest
                           ELSE rest \o <<set_event_row_type(row, "Committed")>>

\* The rows of one scan, in scan order (the loop of on_scan).
RECURSIVE ScanRows(_)
ScanRows(entries) ==
    IF entries = <<>> THEN <<>>
    ELSE LET entry == Head(entries)
             rest == ScanRows(Tail(entries))
         IN  IF IsNone(entry)
             THEN <<set_event_row_type(EventRowDefault, "Initialized")>> \o rest
             ELSE LET e == Unwrap(entry) IN
                  IF e.tag = "Prewrite"
                  THEN LET r == decode_lock(e.key, e.lock, EventRowDefault) IN
                       IF r.skip THEN rest
                       ELSE <<decode_default(e.default, r.row)>> \o rest
                  ELSE LET r == decode_write(e.key, e.write, EventRowDefault)
                           row == decode_default(e.default, r.row)
                       IN  IF r.skip \/ row.r_type = "Rollback" THEN rest
                           ELSE <<set_event_row_type(row, "Committed")>> \o rest

\* The downstream on_scan sends to: the active one with this id, if any.
ScanTarget(ds, id) == SelectSeq(ds, LAMBDA d : d.id = id)

\* Mutant: the scan is sent to every active downstream.
ScanReadyToAll(ds, log, id, entries) ==
    IF ScanTarget(ds, id) = <<>> THEN log
    ELSE SendAll(log, ds,
                 ChangeData(RegionId, 0, EntriesPayload(ScanRows(entries))))

\* Delegate::on_scan once the pending buffer is gone.
ScanReady(ds, log, id, entries) ==
    IF ScanTarget(ds, id) = <<>> THEN log
    ELSE Sink(log, Head(ScanTarget(ds, id)),
              ChangeData(RegionId, 0, EntriesPayload(ScanRows(entries))))

\* The scan of tests::test_scan: key "a", value "b" under the default CF.
ScanOfTest ==
    << Some(TxnPrewrite("b", EncodedKey("a", None),
                        LockRec("Put", 1, None))),
       Some(TxnCommit("b", EncodedKey("a", Some(2)),
                      WriteRec("Put", 1, None))),
       Some(TxnCommit("", EncodedKey("a", Some(3)),
                      WriteRec("Rollback", 3, None))),
       None >>

ScanInputs ==
    { ScanOfTest,
      << Some(TxnCommit("c", EncodedKey("b", Some(3)),
                        WriteRec("Delete", 2, None))) >> }

on_scan(id, entries) ==
    /\ ~panicked
    /\ Tick("on_scan")
    /\ UNCHANGED << new_calls, lock_manager >>
    /\ id < next_id
    /\ IF IsSome(pending)
       THEN /\ pending' = Some([Unwrap(pending) EXCEPT
                                  !.scan = Append(@, <<id, entries>>)])
            /\ delivered' = delivered
       ELSE /\ delivered' = ScanReady(downstreams, delivered, id, entries)
            /\ pending' = pending
    /\ UNCHANGED << region, downstreams, resolver, enabled, failed, next_id,
                    dropped, panicked, ret, last_gone, rejected >>

(***************************************************************************)
(* Delegate::fail.                                                         *)
(***************************************************************************)
\* self.enabled.store(false) comes first, before the classifier can panic.
\* Mutant: the flag is flipped instead of cleared.
FailEnabledFlips(en) == ~en

FailEnabled(en) == FALSE

\* self.failed = true
FailFailed(f) == TRUE

FailStep(err) ==
    /\ enabled' = FailEnabled(enabled)
    /\ IF ErrorEventPanics(err)
       THEN /\ panicked' = TRUE
            /\ UNCHANGED << failed, delivered >>
       ELSE /\ delivered' = broadcast(delivered, pending, downstreams,
                                      error_event(err))
            /\ failed' = FailFailed(failed)
            /\ panicked' = panicked
    /\ UNCHANGED << region, downstreams, resolver, pending, next_id, dropped,
                    ret, last_gone, rejected >>

FailInputs ==
    { Err("NotLeader", <<>>), Err("RegionNotFound", <<>>),
      Err("EpochNotMatch", <<>>), Err("Other", <<>>) }

fail(err) ==
    /\ ~panicked
    /\ Tick("fail")
    /\ UNCHANGED << new_calls, lock_manager >>
    /\ FailStep(err)

(***************************************************************************)
(* Delegate::sink_admin (on_admin): an observed admin command as a         *)
(* topology fault.                                                         *)
(***************************************************************************)
AdminCmdTypes ==
    {"Split", "BatchSplit", "PrepareMerge", "CommitMerge", "RollbackMerge",
     "CompactLog", "ChangePeer"}

\* The commands sink_admin turns into an error.
FaultAdminCmdTypes ==
    {"Split", "BatchSplit", "PrepareMerge", "CommitMerge", "RollbackMerge"}

\* AdminResponse: split { left, right } and splits { regions }, as region ids
\* (0 is the id of Region::default()).
AdminResponses ==
    { [split |-> [left |-> 10, right |-> 11], splits |-> <<12, 13>>] }

\* Mutant: BatchSplit handled like the merges, its region list dropped.
AdminErrorNoRegions(cmd_type, response) ==
    CASE cmd_type = "Split" ->
             Some(Err("EpochNotMatch",
                      <<response.split.left, response.split.right>>))
      [] cmd_type \in {"BatchSplit", "PrepareMerge", "CommitMerge",
                       "RollbackMerge"} ->
             Some(Err("EpochNotMatch", <<>>))
      [] OTHER -> None

\* Mutant: the `_` arm fails the delegate like a merge.
AdminErrorOnEveryCommand(cmd_type, response) ==
    CASE cmd_type = "Split" ->
             Some(Err("EpochNotMatch",
                      <<response.split.left, response.split.right>>))
      [] cmd_type = "BatchSplit" ->
             Some(Err("EpochNotMatch", response.splits))
      [] OTHER -> Some(Err("EpochNotMatch", <<>>))

\* The match of sink_admin: Some(error) or None (`_ => return`).
AdminError(cmd_type, response) ==
    CASE cmd_type = "Split" ->
             Some(Err("EpochNotMatch",
                      <<response.split.left, response.split.right>>))
      [] cmd_type = "BatchSplit" ->
             Some(Err("EpochNotMatch", response.splits))
      [] cmd_type \in {"PrepareMerge", "CommitMerge", "RollbackMerge"} ->
             Some(Err("EpochNotMatch", <<>>))
      [] OTHER -> None

sink_admin(cmd_type, response) ==
    /\ ~panicked
    /\ Tick("sink_admin")
    /\ UNCHANGED << new_calls, lock_manager >>
    /\ LET e == AdminError(cmd_type, response)
       IN  IF IsSome(e)
           THEN FailStep(Unwrap(e))
           ELSE UNCHANGED << delegate, next_id, delivered, dropped,
                             panicked, ret, last_gone, rejected >>

(***************************************************************************)
(* Delegate::on_min_ts.                                                    *)
(***************************************************************************)
\* Mutant: the value is halved on its way into the event.
ResolvedTsEventHalved(resolved_ts) ==
    ChangeData(RegionId, 0, ResolvedTsPayload(resolved_ts \div 2))

\* The envelope on_min_ts broadcasts for a resolved timestamp.
ResolvedTsEvent(resolved_ts) ==
    ChangeData(RegionId, 0, ResolvedTsPayload(resolved_ts))

\* Mutant: the current resolved ts is broadcast on every tick.
MinTsLogEveryTick(log, pend, ds, res) ==
    IF res.resolver.init
    THEN broadcast(log, pend, ds, ResolvedTsEvent(res.resolver.resolved_ts))
    ELSE log

MinTsLog(log, pend, ds, res) ==
    IF IsSome(res.ts)
    THEN broadcast(log, pend, ds, ResolvedTsEvent(Unwrap(res.ts)))
    ELSE log

on_min_ts(min_ts) ==
    /\ ~panicked
    /\ Tick("on_min_ts")
    /\ UNCHANGED << new_calls, lock_manager >>
    /\ IF IsNone(resolver)
       THEN UNCHANGED << resolver, delivered >>
       ELSE LET res == Resolve(Unwrap(resolver), min_ts) IN
            /\ resolver' = Some(res.resolver)
            /\ delivered' = MinTsLog(delivered, pending, downstreams, res)
    /\ UNCHANGED << region, downstreams, pending, enabled, failed, next_id,
                    dropped, panicked, ret, last_gone, rejected >>

(***************************************************************************)
(* Delegate::on_batch: unimplemented!().                                   *)
(***************************************************************************)
on_batch ==
    /\ ~panicked
    /\ Tick("on_batch")
    /\ UNCHANGED << new_calls, lock_manager >>
    /\ panicked' = TRUE
    /\ UNCHANGED << delegate, next_id, delivered, dropped, ret, last_gone,
                    rejected >>

(***************************************************************************)
(* Delegate::on_region_ready.                                              *)
(***************************************************************************)
\* Mutant: the replay takes every queued downstream without the epoch check.
ReplaySubscribesNoCheck(ds, log, reg, queued) ==
    [downstreams |-> ds \o queued, log |-> log]

\* for downstream in pending.downstreams { self.subscribe(downstream) }
RECURSIVE ReplaySubscribes(_, _, _, _)
ReplaySubscribes(ds, log, reg, queued) ==
    IF queued = <<>> THEN [downstreams |-> ds, log |-> log]
    ELSE LET r == SubscribeReady(ds, log, reg, Head(queued))
         IN  ReplaySubscribes(r.downstreams, r.log, reg, Tail(queued))

\* Mutant: the queued scans are replayed from the last one to the first.
RECURSIVE ReplayScansReversed(_, _, _)
ReplayScansReversed(ds, log, scans) ==
    IF scans = <<>> THEN log
    ELSE LET l == ReplayScansReversed(ds, log, Tail(scans))
         IN  ScanReady(ds, l, Head(scans)[1], Head(scans)[2])

\* for (downstream_id, entries) in pending.scan { self.on_scan(..) }
RECURSIVE ReplayScans(_, _, _)
ReplayScans(ds, log, scans) ==
    IF scans = <<>> THEN log
    ELSE ReplayScans(ds, ScanReady(ds, log, Head(scans)[1], Head(scans)[2]),
                     Tail(scans))

\* Mutant: the queued scans are replayed before the queued subscribes.
DrainPendingScansFirst(ds, log, reg, pend) ==
    ReplaySubscribes(ds, ReplayScans(ds, log, pend.scan), reg,
                     pend.downstreams)

\* The drain of the pending buffer: subscribes first, then scans.
DrainPending(ds, log, reg, pend) ==
    LET subs == ReplaySubscribes(ds, log, reg, pend.downstreams)
    IN  [downstreams |-> subs.downstreams,
         log |-> ReplayScans(subs.downstreams, subs.log, pend.scan)]

\* Mutant: no assertion, a second resolver replaces the first.
OnRegionReadyNoAssert(new_resolver, new_region) ==
    /\ ~panicked
    /\ Tick("on_region_ready")
    /\ UNCHANGED << new_calls, lock_manager >>
    /\ resolver' = Some(new_resolver)
    /\ region' = Some(new_region)
    /\ pending' = None
    /\ IF IsSome(pending)
       THEN LET r == DrainPending(downstreams, delivered, new_region,
                                  Unwrap(pending)) IN
            /\ downstreams' = r.downstreams
            /\ delivered' = r.log
       ELSE UNCHANGED << downstreams, delivered >>
    /\ UNCHANGED << enabled, failed, panicked, next_id, dropped, ret,
                    last_gone, rejected >>

on_region_ready(new_resolver, new_region) ==
    /\ ~panicked
    /\ Tick("on_region_ready")
    /\ UNCHANGED << new_calls, lock_manager >>
    /\ IF IsSome(resolver)
       THEN \* assert!(self.resolver.is_none())
            /\ panicked' = TRUE
            /\ UNCHANGED << delegate, delivered >>
       ELSE LET r == DrainPending(downstreams, delivered, new_region,
                                  Unwrap(pending)) IN
            /\ resolver' = Some(new_resolver)
            /\ region' = Some(new_region)
            /\ pending' = None
            /\ downstreams' = r.downstreams
            /\ delivered' = r.log
            /\ UNCHANGED << enabled, failed, panicked >>
    /\ UNCHANGED << next_id, dropped, ret, last_gone, rejected >>

(***************************************************************************)
(* The transport layer drops the receiving side of a downstream's channel. *)
(***************************************************************************)
DropReceiver(id) ==
    /\ ~panicked
    /\ Tick("drop_receiver")
    /\ UNCHANGED << new_calls, lock_manager >>
    /\ id < next_id
    /\ id \notin dropped
    /\ dropped' = dropped \cup {id}
    /\ UNCHANGED << delegate, next_id, delivered, panicked, ret, last_gone,
                    rejected >>

(***************************************************************************)
(* Delegate::new, and the specification.                                   *)
(***************************************************************************)
PendingDefault == [downstreams |-> <<>>, scan |-> <<>>]

\* LockManager::new (server/lock_manager/mod.rs): the counter at zero, both
\* workers without a task, no thread inside wait_for.
LockManagerNew ==
    /\ waiter_count = 0
    /\ waiter_mgr_tasks = <<>>
    /\ detector_tasks = <<>>
    /\ wait_table = {}
    /\ callers = [t \in 1 .. MaxThreads |-> None]

Init ==
    /\ region = None
    /\ downstreams = <<>>
    /\ resolver = None
    /\ pending = Some(PendingDefault)
    /\ enabled = TRUE
    /\ failed = FALSE
    /\ next_id = 0
    /\ delivered = <<>>
    /\ dropped = {}
    /\ panicked = FALSE
    /\ ret = FALSE
    /\ steps = 0
    /\ op = "new"
    /\ last_gone = FALSE
    /\ rejected = {}
    /\ new_calls = <<>>
    /\ LockManagerNew

UnsubscribeErrs == { None, Some(Err("NotLeader", <<>>)), Some(Err("Other", <<>>)) }

Next ==
    \/ \E epoch \in Epochs : subscribe(epoch)
    \/ \E id \in Ids, err \in UnsubscribeErrs : unsubscribe(id, err)
    \/ \E r \in ResolverInputs, reg \in Regions : on_region_ready(r, reg)
    \/ \E min_ts \in MinTsInputs : on_min_ts(min_ts)
    \/ \E id \in Ids, entries \in ScanInputs : on_scan(id, entries)
    \/ on_batch
    \/ \E err \in FailInputs : fail(err)
    \/ \E c \in AdminCmdTypes, resp \in AdminResponses : sink_admin(c, resp)
    \/ \E id \in Ids : DropReceiver(id)

Spec == Init /\ [][Next]_vars

(***************************************************************************)
(* Vocabulary of the properties.                                           *)
(***************************************************************************)
\* The single event of an envelope, and what it holds.
OneEvent(cd) == Len(cd.events) = 1 /\ IsSome(cd.events[1].event)
Payload(cd) == Unwrap(cd.events[1].event)
IsError(cd) == OneEvent(cd) /\ Payload(cd).type = "Error"
IsErrorOf(cd, kind) == IsError(cd) /\ Payload(cd).kind = kind
IsResolvedTs(cd) == OneEvent(cd) /\ Payload(cd).type = "ResolvedTs"
IsEntries(cd) == OneEvent(cd) /\ Payload(cd).type = "Entries"

\* What channel `id` received in this step.
Received(id) ==
    SinkOf(SubSeq(delivered', Len(delivered) + 1, Len(delivered')), id)
\* The envelopes sent in this step, with their destinations.
NewEnvelopes == SubSeq(delivered', Len(delivered) + 1, Len(delivered'))

\* In `new`, every channel of `ids` received exactly one envelope and no
\* other channel received any.
OneEnvelopeEach(ids, new) ==
    /\ Len(new) = Cardinality(ids)
    /\ { new[i].to : i \in 1 .. Len(new) } = ids

\* The channel log only grows.
LogGrows ==
    /\ Len(delivered) <= Len(delivered')
    /\ SubSeq(delivered', 1, Len(delivered)) = delivered

\* The downstreams subscribed to the delegate: queued while it is Pending,
\* active afterwards.
Subscribed ==
    IF IsSome(pending) THEN IdsOf(Unwrap(pending).downstreams)
    ELSE IdsOf(downstreams)

\* A step of one of the operations that fan out to every downstream.
FanOutStep ==
    \/ on_batch
    \/ \E min_ts \in MinTsInputs : on_min_ts(min_ts)
    \/ \E err \in FailInputs : fail(err)
    \/ \E c \in AdminCmdTypes, resp \in AdminResponses : sink_admin(c, resp)

(***************************************************************************)
(* C1.  After an unsubscribe that removes the last active downstream of an *)
(* Active delegate, enabled() reads false and no later fan-out (on_batch,  *)
(* on_min_ts, fail, on_admin) delivers an envelope to any sink.            *)
(***************************************************************************)
C1_LastUnsubscribeDisables ==
    [][ last_gone => (~enabled /\ (FanOutStep => delivered' = delivered)) ]_vars

(***************************************************************************)
(* C2.  The enabled flag is cleared only by fail (or on_admin, which       *)
(* fails) or by an unsubscribe after which no downstream remains           *)
(* subscribed; unsubscribing one of two or more downstreams queued in the  *)
(* Pending phase leaves enabled true and returns false.                    *)
(***************************************************************************)
C2_EnabledClearedOnlyWhenNoneLeft ==
    [][ /\ (enabled /\ ~enabled') =>
              \/ \E err \in FailInputs : fail(err)
              \/ \E c \in AdminCmdTypes, resp \in AdminResponses :
                     sink_admin(c, resp)
              \/ Subscribed' = {}
        /\ \A id \in Ids, err \in UnsubscribeErrs :
              ( /\ unsubscribe(id, err)
                /\ ~panicked'
                /\ IsSome(pending)
                /\ Len(Unwrap(pending).downstreams) >= 2
                /\ enabled )
              => (enabled' /\ ret' = FALSE) ]_vars

(***************************************************************************)
(* C3.  subscribe(d) on an Active delegate with a stale epoch version      *)
(* delivers exactly one Error(EpochNotMatch) envelope to d, does not add d *)
(* to the downstream list and delivers nothing to any other downstream;    *)
(* afterwards d never receives another envelope.                           *)
(***************************************************************************)
C3_EpochGate ==
    [][ /\ \A epoch \in Epochs :
              ( /\ op' = "subscribe"
                /\ IsSome(region)
                /\ epoch.version < Unwrap(region).epoch.version
                /\ subscribe(epoch) )
              => /\ Len(delivered') = Len(delivered) + 1
                 /\ LogGrows
                 /\ delivered'[Len(delivered')].to = next_id
                 /\ IsErrorOf(delivered'[Len(delivered')].data, "EpochNotMatch")
                 /\ downstreams' = downstreams
        /\ \A d \in rejected' :
              /\ d \notin IdsOf(downstreams')
              /\ Len(SinkOf(delivered', d)) = 1
              /\ IsErrorOf(SinkOf(delivered', d)[1], "EpochNotMatch") ]_vars

\* A downstream was turned away, and a later operation delivered an envelope
\* to a downstream that is active.
C3_Witness ==
    /\ rejected # {}
    /\ downstreams # <<>>
    /\ Len(delivered) >= 2
    /\ delivered[1].to \in rejected
    /\ delivered[Len(delivered)].to \in IdsOf(downstreams)

(***************************************************************************)
(* C4.  on_region_ready delivers every scan queued while Pending for a     *)
(* downstream that is still subscribed (queued and accepted at replay), in *)
(* arrival order and inside on_region_ready itself, hence before any       *)
(* envelope of a later operation: the channel log only ever grows.         *)
(***************************************************************************)
\* The envelopes expected from the queued scans of downstream `id`.
RECURSIVE QueuedScansOf(_, _)
QueuedScansOf(scans, id) ==
    IF scans = <<>> THEN <<>>
    ELSE LET rest == QueuedScansOf(Tail(scans), id) IN
         IF Head(scans)[1] = id
         THEN << ChangeData(RegionId, 0,
                            EntriesPayload(ScanRows(Head(scans)[2]))) >> \o rest
         ELSE rest

C4_PendingFlush ==
    [][ /\ LogGrows
        /\ \A r \in ResolverInputs, reg \in Regions :
              (op' = "on_region_ready" /\ ~panicked' /\ on_region_ready(r, reg))
              => \A id \in IdsOf(downstreams') \ dropped :
                     Received(id) = QueuedScansOf(Unwrap(pending).scan, id) ]_vars

\* Two scans were queued for a downstream and on_region_ready delivered both.
C4_Witness ==
    /\ op = "on_region_ready"
    /\ steps = 4
    /\ Len(downstreams) = 1
    /\ Len(delivered) = 2
    /\ IsEntries(delivered[1].data) /\ IsEntries(delivered[2].data)
    /\ delivered[1].data # delivered[2].data

(***************************************************************************)
(* C5.  The ResolvedTs values one delegate delivers to a downstream are    *)
(* strictly increasing.                                                    *)
(***************************************************************************)
ResolvedTsOf(log) ==
    LET picked == SelectSeq(log, IsResolvedTs)
    IN  [i \in 1 .. Len(picked) |-> Payload(picked[i]).resolved_ts]

StrictlyIncreasing(seq) ==
    \A i \in 1 .. Len(seq) - 1 : seq[i] < seq[i + 1]

C5_MonotoneResolvedTs ==
    \A id \in Ids : StrictlyIncreasing(ResolvedTsOf(SinkOf(delivered, id)))

\* A downstream has received two resolved timestamps.
C5_Witness ==
    \E id \in Ids : Len(ResolvedTsOf(SinkOf(delivered, id))) >= 2

(***************************************************************************)
(* C6.  Once a ResolvedTs r was emitted, no row with a non-zero            *)
(* commit_ts <= r is emitted later.                                        *)
(***************************************************************************)
C6_LockClosure ==
    \A i \in 1 .. Len(delivered), j \in 1 .. Len(delivered) :
        ( /\ i < j
          /\ IsResolvedTs(delivered[i].data)
          /\ IsEntries(delivered[j].data) )
        => \A k \in 1 .. Len(Payload(delivered[j].data).entries) :
               LET row == Payload(delivered[j].data).entries[k] IN
               ~(row.commit_ts # 0
                 /\ row.commit_ts <= Payload(delivered[i].data).resolved_ts)

(***************************************************************************)
(* C7.  fail(err) with err one of NotLeader, RegionNotFound, EpochNotMatch *)
(* delivers exactly one envelope holding one Error event of that kind to   *)
(* every subscribed downstream (whose receiver still exists) and to nobody *)
(* else, and leaves enabled() false and has_failed() true: on every call,  *)
(* also on a delegate that has failed before.                              *)
(***************************************************************************)
C7_FailFansOutError ==
    [][ \A err \in FailInputs :
           (op' = "fail" /\ err.kind \in KnownErrorKinds /\ fail(err))
           => /\ OneEnvelopeEach(Subscribed \ dropped, NewEnvelopes)
              /\ \A i \in 1 .. Len(NewEnvelopes) :
                    IsErrorOf(NewEnvelopes[i].data, err.kind)
              /\ ~enabled'
              /\ failed' ]_vars

\* Two fail calls have reached the same downstream.
C7_Witness ==
    /\ failed
    /\ op = "fail"
    /\ \E id \in Ids :
          LET got == SinkOf(delivered, id) IN
          /\ Len(got) = 2
          /\ IsErrorOf(got[1], "NotLeader")
          /\ IsErrorOf(got[2], "RegionNotFound")

(***************************************************************************)
(* C8.  The Failed phase is terminal: after fail, a later subscribe,       *)
(* on_scan, on_min_ts, on_batch, on_admin or fail call delivers no         *)
(* envelope to any downstream, adds no downstream (neither to the active   *)
(* list nor to the pending one), and the delegate stays failed.            *)
(***************************************************************************)
C8_FailedIsTerminal ==
    [][ (/\ failed
         /\ op' \in {"subscribe", "on_scan", "on_min_ts", "on_batch",
                     "sink_admin", "fail"})
        => /\ delivered' = delivered
           /\ IdsOf(downstreams') \subseteq IdsOf(downstreams)
           /\ IsSome(pending') =>
                 /\ IsSome(pending)
                 /\ IdsOf(Unwrap(pending').downstreams)
                        \subseteq IdsOf(Unwrap(pending).downstreams)
           /\ failed' ]_vars

(***************************************************************************)
(* C9.  on_admin turns Split into Error(EpochNotMatch) with the response's *)
(* left and right regions, BatchSplit into Error(EpochNotMatch) with the   *)
(* response's region list, and the three merge commands into              *)
(* Error(EpochNotMatch) with no region; in each case the delegate fails.   *)
(***************************************************************************)
ExpectedRegions(cmd_type, response) ==
    IF cmd_type = "Split" THEN <<response.split.left, response.split.right>>
    ELSE IF cmd_type = "BatchSplit" THEN response.splits
    ELSE <<>>

C9_AdminMapsToEpochNotMatch ==
    [][ \A c \in FaultAdminCmdTypes, resp \in AdminResponses :
           (op' = "sink_admin" /\ sink_admin(c, resp))
           => /\ OneEnvelopeEach(Subscribed \ dropped, NewEnvelopes)
              /\ \A i \in 1 .. Len(NewEnvelopes) :
                    /\ IsErrorOf(NewEnvelopes[i].data, "EpochNotMatch")
                    /\ Payload(NewEnvelopes[i].data).current_regions
                           = ExpectedRegions(c, resp)
              /\ ~enabled'
              /\ failed' ]_vars

\* A BatchSplit was observed and its region list reached a downstream.
C9_Witness ==
    /\ op = "sink_admin"
    /\ failed
    /\ delivered # <<>>
    /\ IsErrorOf(delivered[Len(delivered)].data, "EpochNotMatch")
    /\ Payload(delivered[Len(delivered)].data).current_regions = <<12, 13>>

(***************************************************************************)
(* C10.  on_scan(id, entries) on an Active delegate sends exactly one      *)
(* Entries envelope to the downstream with that id and nothing to any      *)
(* other; when no active downstream has the id nothing is sent and the     *)
(* delegate is unchanged.                                                  *)
(***************************************************************************)
C10_ScanGoesToItsDownstream ==
    [][ \A id \in Ids, entries \in ScanInputs :
           (op' = "on_scan" /\ IsNone(pending) /\ on_scan(id, entries))
           => /\ UNCHANGED delegate
              /\ OneEnvelopeEach({id} \cap (IdsOf(downstreams) \ dropped),
                                 NewEnvelopes)
              /\ \A i \in 1 .. Len(NewEnvelopes) :
                    /\ IsEntries(NewEnvelopes[i].data)
                    /\ Payload(NewEnvelopes[i].data).entries
                           = ScanRows(entries) ]_vars

\* A scan was sent to one of two active downstreams.
C10_Witness ==
    /\ op = "on_scan"
    /\ IsNone(pending)
    /\ Len(downstreams) = 2
    /\ delivered # <<>>
    /\ IsEntries(delivered[Len(delivered)].data)
    /\ delivered[Len(delivered)].to = downstreams[1].id

(***************************************************************************)
(* The scan decoder on its own: an Active delegate with two downstreams    *)
(* is handed every scan of up to MaxScanLen entries.                       *)
(***************************************************************************)
\* The entries a scanner can produce: both column families, every lock and
\* write type, values short (inline) or long (under the default CF).
ScanEntryKinds ==
    { Some(TxnPrewrite("b", EncodedKey("a", None), LockRec("Put", 1, None))),
      Some(TxnPrewrite("", EncodedKey("a", None),
                       LockRec("Put", 2, Some("s")))),
      Some(TxnPrewrite("", EncodedKey("b", None),
                       LockRec("Delete", 3, None))),
      Some(TxnPrewrite("", EncodedKey("b", None), LockRec("Lock", 4, None))),
      Some(TxnCommit("b", EncodedKey("a", Some(2)), WriteRec("Put", 1, None))),
      Some(TxnCommit("", EncodedKey("a", Some(4)),
                     WriteRec("Put", 3, Some("s")))),
      Some(TxnCommit("", EncodedKey("b", Some(3)),
                     WriteRec("Delete", 2, None))),
      Some(TxnCommit("", EncodedKey("a", Some(3)),
                     WriteRec("Rollback", 3, None))),
      Some(TxnCommit("", EncodedKey("b", Some(4)),
                     WriteRec("Lock", 1, None))),
      None }

\* Every scan of at most n entries.
RECURSIVE ScansUpTo(_)
ScansUpTo(n) ==
    IF n = 0 THEN { <<>> }
    ELSE LET shorter == ScansUpTo(n - 1) IN
         shorter \cup { Append(s, e) : s \in shorter, e \in ScanEntryKinds }

ScanSpace == ScansUpTo(MaxScanLen)

\* The delegate after subscribe, subscribe, on_region_ready with a resolver
\* that is not initialized, and on_min_ts calls that found nothing to emit.
InitScan ==
    /\ region = Some(CHOOSE reg \in Regions : TRUE)
    /\ downstreams = << DownstreamNew(0, [conf_ver |-> 2, version |-> 2]),
                        DownstreamNew(1, [conf_ver |-> 2, version |-> 2]) >>
    /\ resolver = Some(ResolverNew({}, FALSE))
    /\ pending = None
    /\ enabled = TRUE
    /\ failed = FALSE
    /\ next_id = 2
    /\ delivered = <<>>
    /\ dropped = {}
    /\ panicked = FALSE
    /\ ret = FALSE
    /\ steps = MaxOps - 1
    /\ op = "on_min_ts"
    /\ last_gone = FALSE
    /\ rejected = {}
    /\ new_calls = <<>>
    /\ LockManagerNew

NextScan == \E id \in Ids, entries \in ScanSpace : on_scan(id, entries)

SpecScan == InitScan /\ [][NextScan]_vars

\* The rows of the envelope sent in this step.
NewRows == Payload(NewEnvelopes[1].data).entries

\* An on_scan step that reaches the active downstream `id`.
ScanStep(id, entries) ==
    /\ op' = "on_scan"
    /\ IsNone(pending)
    /\ id \in IdsOf(downstreams) \ dropped
    /\ NewEnvelopes # <<>>
    /\ NewEnvelopes[1].to = id
    /\ delivered' = ScanReady(downstreams, delivered, id, entries)

(***************************************************************************)
(* C11.  The rows of a scan envelope other than the end marker are, in     *)
(* scan order, one Prewrite row per Prewrite entry with a Put or Delete    *)
(* lock (start_ts the lock's ts, commit_ts 0, value the default-CF value   *)
(* when there is one and the short value otherwise) and one Committed row  *)
(* per Commit entry with a Put or Delete write (start_ts and commit_ts);   *)
(* a Commit entry whose write is a Rollback yields no row.                 *)
(***************************************************************************)
YieldsRow(entry) ==
    /\ IsSome(entry)
    /\ \/ /\ Unwrap(entry).tag = "Prewrite"
          /\ Unwrap(entry).lock.lock_type \in {"Put", "Delete"}
       \/ /\ Unwrap(entry).tag = "Commit"
          /\ Unwrap(entry).write.write_type \in {"Put", "Delete"}

MergedValue(default_value, short_value) ==
    IF default_value # "" THEN default_value
    ELSE IF IsSome(short_value) THEN Unwrap(short_value) ELSE ""

ExpectedRow(e) ==
    IF e.tag = "Prewrite"
    THEN [start_ts |-> e.lock.ts, commit_ts |-> 0, key |-> e.key.raw,
          value |-> MergedValue(e.default, e.lock.short_value),
          op_type |-> e.lock.lock_type, r_type |-> "Prewrite"]
    ELSE [start_ts |-> e.write.start_ts, commit_ts |-> Unwrap(e.key.ts),
          key |-> e.key.raw,
          value |-> MergedValue(e.default, e.write.short_value),
          op_type |-> e.write.write_type, r_type |-> "Committed"]

C11_ScanRowsInOrder ==
    [][ \A id \in Ids, entries \in ScanSpace :
           ScanStep(id, entries)
           => /\ Len(NewEnvelopes) = 1
              /\ IsEntries(NewEnvelopes[1].data)
              /\ LET data == SelectSeq(NewRows,
                                 LAMBDA r : r.r_type # "Initialized")
                     src == SelectSeq(entries, YieldsRow)
                 IN  /\ Len(data) = Len(src)
                     /\ \A i \in 1 .. Len(src) :
                           data[i] = ExpectedRow(Unwrap(src[i])) ]_vars

\* A scan delivered a Committed row followed by a Prewrite row.
C11_Witness ==
    /\ op = "on_scan"
    /\ delivered # <<>>
    /\ LET rows == Payload(delivered[Len(delivered)].data).entries IN
       /\ Len(rows) = 2
       /\ rows[1].r_type = "Committed" /\ rows[1].commit_ts = 3
       /\ rows[2].r_type = "Prewrite" /\ rows[2].value = "b"

(***************************************************************************)
(* C12.  For a scan whose only None is its last entry, the envelope holds  *)
(* exactly one Initialized row, every other field of it empty, and that    *)
(* row is the last one: all Prewrite and Committed rows precede it.        *)
(***************************************************************************)
TerminatedByNone(entries) ==
    /\ entries # <<>>
    /\ \A i \in 1 .. Len(entries) : IsNone(entries[i]) <=> i = Len(entries)

C12_InitializedClosesScan ==
    [][ \A id \in Ids, entries \in ScanSpace :
           (TerminatedByNone(entries) /\ ScanStep(id, entries))
           => /\ Len(NewEnvelopes) = 1
              /\ NewRows # <<>>
              /\ NewRows[Len(NewRows)]
                    = [EventRowDefault EXCEPT !.r_type = "Initialized"]
              /\ \A i \in 1 .. (Len(NewRows) - 1) :
                    NewRows[i].r_type \in {"Prewrite", "Committed"} ]_vars

\* A scan of one row and the end marker was delivered.
C12_Witness ==
    /\ op = "on_scan"
    /\ delivered # <<>>
    /\ LET rows == Payload(delivered[Len(delivered)].data).entries IN
       /\ Len(rows) = 2
       /\ rows[1].r_type \in {"Prewrite", "Committed"}
       /\ rows[2].r_type = "Initialized"

(***************************************************************************)
(* C13.  As claimed: two downstreams that are both subscribed receive the  *)
(* same non-Error envelopes from every later operation.                    *)
(***************************************************************************)
\* Both are subscribed before the step and after it, both channels live.
BothSubscribed(a, b) ==
    /\ a # b
    /\ {a, b} \subseteq Subscribed \ dropped
    /\ {a, b} \subseteq Subscribed'

C13_FanOutFidelity ==
    [][ NewEnvelopes # <<>> =>
           \A a, b \in Ids :
              BothSubscribed(a, b)
              => SelectSeq(Received(a), LAMBDA cd : ~IsError(cd))
                    = SelectSeq(Received(b), LAMBDA cd : ~IsError(cd)) ]_vars

(***************************************************************************)
(* C13, amended.  Two downstreams that are both subscribed, their channels *)
(* live, receive the same broadcast (ResolvedTs) envelopes from every      *)
(* later operation; the Entries envelope of a scan goes to the downstream  *)
(* that asked for it alone.                                                *)
(***************************************************************************)
C13_BroadcastFidelity ==
    [][ NewEnvelopes # <<>> =>
           \A a, b \in Ids :
              BothSubscribed(a, b)
              => SelectSeq(Received(a), IsResolvedTs)
                    = SelectSeq(Received(b), IsResolvedTs) ]_vars

\* One tick of on_min_ts reached two downstreams with the same value.
C13_Witness ==
    /\ op = "on_min_ts"
    /\ Len(downstreams) >= 2
    /\ Len(delivered) >= 2
    /\ LET x == delivered[Len(delivered) - 1]
           y == delivered[Len(delivered)]
       IN  /\ x.to # y.to
           /\ IsResolvedTs(x.data)
           /\ x.data = y.data

(***************************************************************************)
(* C14.  Envelopes reach a sink in the order of the operations that        *)
(* produced them: the channels are FIFO and an operation only appends to   *)
(* them.  A broadcast (fail, on_admin, on_min_ts) serves the downstreams   *)
(* in the order of the list, and the list is in subscription order: a      *)
(* subscribe appends, every other operation keeps the relative order.      *)
(***************************************************************************)
IdSeq(ds) == [i \in 1 .. Len(ds) |-> ds[i].id]

\* The destinations of a run of envelopes.
DestSeq(new) == [i \in 1 .. Len(new) |-> new[i].to]

\* The live targets of a broadcast, in list order.
LiveTargets ==
    IdSeq(SelectSeq(BroadcastTargets(pending, downstreams),
                    LAMBDA d : d.id \notin dropped))

\* Subscription order: the ids are handed out in the order of subscribe.
InSubscriptionOrder(ds) ==
    \A i, j \in 1 .. Len(ds) : i < j => ds[i].id < ds[j].id

C14_DeliveryOrder ==
    [][ /\ LogGrows
        /\ (op' \in {"fail", "sink_admin", "on_min_ts"} /\ NewEnvelopes # <<>>)
              => DestSeq(NewEnvelopes) = LiveTargets
        /\ InSubscriptionOrder(downstreams')
        /\ IsSome(pending') => InSubscriptionOrder(Unwrap(pending').downstreams)
      ]_vars

\* A resolved ts and then an error were broadcast to two downstreams.
C14_Witness ==
    /\ op = "fail"
    /\ Len(delivered) = 4
    /\ IsResolvedTs(delivered[1].data) /\ IsResolvedTs(delivered[2].data)
    /\ IsError(delivered[3].data) /\ IsError(delivered[4].data)
    /\ delivered[1].to < delivered[2].to
    /\ delivered[3].to < delivered[4].to

(***************************************************************************)
(* C15.  unsubscribe on an Active delegate removes the downstream with the *)
(* given id from the active list, returns true exactly when the list is    *)
(* empty afterwards, clears enabled when it returns true and leaves it as  *)
(* it was when it returns false.                                           *)
(***************************************************************************)
C15_UnsubscribeActive ==
    [][ (op' = "unsubscribe" /\ IsNone(pending) /\ ~panicked')
        => /\ \E id \in Ids : downstreams' = Retain(downstreams, id)
           /\ ret' = (downstreams' = <<>>)
           /\ ret' => ~enabled'
           /\ ~ret' => enabled' = enabled ]_vars

\* One of two active downstreams was unsubscribed: false, still enabled.
C15_Witness ==
    /\ op = "unsubscribe"
    /\ steps = 4
    /\ IsNone(pending)
    /\ next_id = 2
    /\ Len(downstreams) = 1
    /\ ret = FALSE
    /\ enabled

(***************************************************************************)
(* C16.  unsubscribe(id, Some(err)) delivers exactly one error envelope to *)
(* the downstream with that id, queued or active, and nothing to any       *)
(* other downstream; unsubscribe(id, None) delivers nothing at all.        *)
(***************************************************************************)
C16_UnsubscribeErrorToTargetOnly ==
    [][ \A id \in Ids, err \in UnsubscribeErrs :
           (op' = "unsubscribe" /\ unsubscribe(id, err))
           => IF IsSome(err) /\ id \in Subscribed \ dropped
              THEN /\ Len(NewEnvelopes) = 1
                   /\ NewEnvelopes[1].to = id
                   /\ IsError(NewEnvelopes[1].data)
              ELSE NewEnvelopes = <<>> ]_vars

(***************************************************************************)
(* C17.  unsubscribe completes without aborting whatever error it is       *)
(* given: the worker does not panic, the target downstream has received    *)
(* its error envelope and is no longer subscribed.                         *)
(***************************************************************************)
C17_UnsubscribeNeverAborts ==
    [][ \A id \in Ids, err \in UnsubscribeErrs :
           (op' = "unsubscribe" /\ unsubscribe(id, err))
           => /\ ~panicked'
              /\ id \notin Subscribed'
              /\ (IsSome(err) /\ id \in Subscribed \ dropped)
                    => /\ Received(id) # <<>>
                       /\ IsError(Received(id)[1]) ]_vars

(***************************************************************************)
(* C18.  unsubscribe is idempotent: an unsubscribe that directly follows   *)
(* an unsubscribe and names a downstream that is no longer subscribed,     *)
(* with or without an error, completes, sends no envelope, leaves the      *)
(* pending and active lists and the enabled flag as they were and returns  *)
(* what the call before it returned.                                       *)
(***************************************************************************)
C18_UnsubscribeIdempotent ==
    [][ \A id \in Ids, err \in UnsubscribeErrs :
           ( /\ op = "unsubscribe"
             /\ op' = "unsubscribe"
             /\ id \notin Subscribed
             /\ unsubscribe(id, err) )
           => /\ ~panicked'
              /\ NewEnvelopes = <<>>
              /\ UNCHANGED << pending, downstreams, enabled >>
              /\ ret' = ret ]_vars

(***************************************************************************)
(* C19.  While the delegate has not failed and has an active downstream,   *)
(* enabled() reads true; it reads false only when the delegate has failed  *)
(* or no downstream is subscribed.  (States of a running worker.)          *)
(***************************************************************************)
C19_EnabledWhileServing ==
    ~panicked =>
        /\ (~failed /\ downstreams # <<>>) => enabled
        /\ ~enabled => (failed \/ Subscribed = {})

(***************************************************************************)
(* The live tail: Delegate::sink_data, the private method that turns the   *)
(* requests of one applied raft command into one Entries envelope and      *)
(* keeps the resolver's lock set.  on_batch, its intended caller, is still *)
(* unimplemented!(); code inside the module calls sink_data directly.      *)
(***************************************************************************)
\* A raft Request: a Put into one column family, or another command.
PutWrite(key, write) ==
    [cmd_type |-> "Put", cf |-> "write", key |-> key, write |-> write]
PutLock(key, lock) ==
    [cmd_type |-> "Put", cf |-> "lock", key |-> key, lock |-> lock]
PutDefault(key, value) ==
    [cmd_type |-> "Put", cf |-> "default", key |-> key, value |-> value]
OtherRequest(cmd_type) ==
    [cmd_type |-> cmd_type, cf |-> "", key |-> EncodedKey("", None),
     value |-> ""]

\* rows: HashMap<raw key, EventRow>, a function on the keys it holds.
RowsEmpty == << >>
RowsGet(rows, k) == IF k \in DOMAIN rows THEN rows[k] ELSE EventRowDefault
RowsInsert(rows, k, row) ==
    [x \in DOMAIN rows \cup {k} |-> IF x = k THEN row ELSE rows[x]]

\* Mutant: a committed or rolled back transaction stays tracked.
SinkDataUntrackNothing(res, row) == res

\* resolver.untrack_lock(row.start_ts, commit_ts, row.key) of the write CF.
SinkDataUntrack(res, row) ==
    UntrackLock(res, row.start_ts, row.commit_ts, row.key)

\* One turn of the loop of sink_data on st = [rows, resolver, panicked].
SinkDataRequest(st, req) ==
    IF st.panicked \/ req.cmd_type # "Put" THEN st
    ELSE CASE req.cf = "write" ->
                 LET r == decode_write(req.key, req.write, EventRowDefault) IN
                 IF r.skip THEN st
                 ELSE IF IsNone(st.resolver)
                 THEN [st EXCEPT !.panicked = TRUE]
                 ELSE LET res == SinkDataUntrack(Unwrap(st.resolver), r.row)
                      IN  IF r.row.key \in DOMAIN st.rows
                          THEN [st EXCEPT !.resolver = Some(res),
                                          !.panicked = TRUE]
                          ELSE [st EXCEPT
                                  !.resolver = Some(res),
                                  !.rows = RowsInsert(@, r.row.key, r.row)]
           [] req.cf = "lock" ->
                 LET r == decode_lock(req.key, req.lock, EventRowDefault) IN
                 IF r.skip THEN st
                 ELSE LET occupied == RowsGet(st.rows, r.row.key)
                          row == IF occupied.value # ""
                                 THEN [r.row EXCEPT !.value = occupied.value]
                                 ELSE r.row
                      IN  IF \/ occupied.value # "" /\ r.row.value # ""
                             \/ IsNone(st.resolver)
                          THEN [st EXCEPT !.panicked = TRUE]
                          ELSE [st EXCEPT
                                  !.resolver =
                                      Some(TrackLock(Unwrap(st.resolver),
                                                     r.row.start_ts,
                                                     r.row.key)),
                                  !.rows = RowsInsert(@, r.row.key, row)]
           [] req.cf \in {"", "default"} ->
                 [st EXCEPT
                    !.rows = RowsInsert(@, req.key.raw,
                                 decode_default(req.value,
                                                RowsGet(@, req.key.raw)))]
           [] OTHER -> [st EXCEPT !.panicked = TRUE]

RECURSIVE SinkDataLoop(_, _)
SinkDataLoop(st, requests) ==
    IF requests = <<>> THEN st
    ELSE SinkDataLoop(SinkDataRequest(st, Head(requests)), Tail(requests))

\* `for (_, v) in rows`: a HashMap is iterated in an order of its own.
RowOrders(rows) ==
    { o \in [1 .. Cardinality(DOMAIN rows) -> DOMAIN rows] :
         \A i, j \in DOMAIN o : i # j => o[i] # o[j] }

sink_data(index, requests) ==
    /\ ~panicked
    /\ Tick("sink_data")
    /\ UNCHANGED << new_calls, lock_manager >>
    /\ LET st == SinkDataLoop([rows |-> RowsEmpty, resolver |-> resolver,
                               panicked |-> FALSE], requests)
       IN  /\ resolver' = st.resolver
           /\ panicked' = st.panicked
           /\ IF st.panicked THEN delivered' = delivered
              ELSE \E o \in RowOrders(st.rows) :
                      delivered' =
                          broadcast(delivered, pending, downstreams,
                              ChangeData(RegionId, index,
                                  EntriesPayload(
                                      [i \in DOMAIN o |-> st.rows[o[i]]])))
    /\ UNCHANGED << region, downstreams, pending, enabled, failed, next_id,
                    dropped, ret, last_gone, rejected >>

\* The raft log index of a batch.
BatchIndexes == {7}

\* Batches: a prewrite of "a" with a long value, its commit, its rollback,
\* a commit of "b" whose value arrives in the same batch before it, the
\* same with the value after it, two writes of "b", prewrites of two keys
\* with short values, a value followed by the prewrite it belongs to (a Put
\* of "a", a Delete of "b"), a committed delete of "b", a prewrite of "b" by
\* the transaction that locks "a", a prewrite of "b" between a lock and a
\* write of "a" of type Lock, and a command that is not a Put.
BatchInputs ==
    { << PutLock(EncodedKey("a", None), LockRec("Put", 2, None)),
         PutDefault(EncodedKey("a", Some(2)), "v") >>,
      << PutWrite(EncodedKey("a", Some(3)), WriteRec("Put", 2, None)) >>,
      << PutWrite(EncodedKey("a", Some(2)), WriteRec("Rollback", 2, None)) >>,
      << PutDefault(EncodedKey("b", Some(3)), "w"),
         PutWrite(EncodedKey("b", Some(4)), WriteRec("Put", 3, None)) >>,
      << PutWrite(EncodedKey("b", Some(4)), WriteRec("Put", 3, None)),
         PutDefault(EncodedKey("b", Some(3)), "w") >>,
      << PutWrite(EncodedKey("b", Some(4)), WriteRec("Put", 3, None)),
         PutWrite(EncodedKey("b", Some(4)), WriteRec("Delete", 3, None)) >>,
      << PutLock(EncodedKey("a", None), LockRec("Put", 2, Some("s"))),
         PutLock(EncodedKey("b", None), LockRec("Delete", 3, None)) >>,
      << PutDefault(EncodedKey("a", Some(2)), "v"),
         PutLock(EncodedKey("a", None), LockRec("Put", 2, None)) >>,
      << PutDefault(EncodedKey("b", Some(3)), "w"),
         PutLock(EncodedKey("b", None), LockRec("Delete", 3, None)) >>,
      << PutWrite(EncodedKey("b", Some(4)), WriteRec("Delete", 3, None)) >>,
      << PutLock(EncodedKey("b", None), LockRec("Put", 2, Some("t"))) >>,
      << PutLock(EncodedKey("a", None), LockRec("Lock", 1, None)),
         PutLock(EncodedKey("b", None), LockRec("Put", 3, None)),
         PutWrite(EncodedKey("a", Some(3)), WriteRec("Lock", 2, None)) >>,
      << OtherRequest("Delete") >> }

\* A scan with records of unsupported types among supported ones.
TailScans ==
    { << Some(TxnPrewrite("", EncodedKey("b", None),
                          LockRec("Pessimistic", 1, None))),
         Some(TxnCommit("", EncodedKey("a", Some(3)),
                        WriteRec("Lock", 2, None))),
         Some(TxnPrewrite("b", EncodedKey("a", None),
                          LockRec("Put", 1, None))),
         None >> }

NextTail ==
    \/ \E epoch \in Epochs : subscribe(epoch)
    \/ \E r \in ResolverInputs, reg \in Regions : on_region_ready(r, reg)
    \/ \E min_ts \in MinTsInputs : on_min_ts(min_ts)
    \/ \E index \in BatchIndexes, requests \in BatchInputs :
          sink_data(index, requests)
    \/ \E id \in Ids, entries \in TailScans : on_scan(id, entries)

SpecTail == Init /\ [][NextTail]_vars

(***************************************************************************)
(* C20.  Every ResolvedTs value on_min_ts(min_ts) emits is the smaller of  *)
(* min_ts and the smallest start_ts the resolver tracks at that moment:    *)
(* with locks at 2 and 3 tracked, on_min_ts(4) emits 2, and once the lock  *)
(* at 2 is untracked by its commit, on_min_ts(4) emits 3.                  *)
(***************************************************************************)
TrackedStartTs == { l[1] : l \in Unwrap(resolver).locks }

SmallestOf(min_ts, tracked) ==
    IF \E t \in tracked : t < min_ts
    THEN CHOOSE t \in tracked : \A u \in tracked : t <= u
    ELSE min_ts

C20_ResolvedTsIsMin ==
    [][ \A min_ts \in MinTsInputs :
           (op' = "on_min_ts" /\ NewEnvelopes # <<>> /\ on_min_ts(min_ts))
           => \A i \in 1 .. Len(NewEnvelopes) :
                 /\ IsResolvedTs(NewEnvelopes[i].data)
                 /\ Payload(NewEnvelopes[i].data).resolved_ts
                       = SmallestOf(min_ts, TrackedStartTs) ]_vars

\* 2 was emitted while the locks at 2 and 3 were tracked, the commit of the
\* transaction at 2 went by, and the next tick emitted 3.
C20_Witness ==
    /\ op = "on_min_ts"
    /\ Len(delivered) = 3
    /\ IsResolvedTs(delivered[1].data)
    /\ Payload(delivered[1].data).resolved_ts = 2
    /\ IsEntries(delivered[2].data)
    /\ IsResolvedTs(delivered[3].data)
    /\ Payload(delivered[3].data).resolved_ts = 3

(***************************************************************************)
(* C21.  on_min_ts on a delegate that is not Active (still Pending, or     *)
(* Failed) delivers no envelope to any downstream and changes no delegate  *)
(* state.                                                                  *)
(***************************************************************************)
NotActive == IsSome(pending) \/ failed

C21_MinTsNoopUnlessActive ==
    [][ (op' = "on_min_ts" /\ NotActive)
        => (delivered' = delivered /\ UNCHANGED delegate) ]_vars

(***************************************************************************)
(* C22.  subscribe on a Pending delegate queues the downstream at the end  *)
(* of the pending buffer whatever its epoch and sends no envelope.  The    *)
(* epoch check is made when on_region_ready replays the queue: a queued    *)
(* downstream with a stale version receives one Error(EpochNotMatch) and   *)
(* is not made active, every other queued downstream becomes active and    *)
(* receives no error.                                                      *)
(***************************************************************************)
C22_EpochCheckDeferredToReplay ==
    [][ /\ (op' = "subscribe" /\ IsSome(pending))
              => /\ \E epoch \in Epochs :
                       pending' = Some([Unwrap(pending) EXCEPT
                                          !.downstreams =
                                              Append(@, DownstreamNew(next_id,
                                                                      epoch))])
                 /\ delivered' = delivered
                 /\ downstreams' = downstreams
        /\ (op' = "on_region_ready" /\ ~panicked' /\ IsSome(pending))
              => LET queued == Unwrap(pending).downstreams IN
                 \A i \in 1 .. Len(queued) :
                    IF EpochIsStale(queued[i].region_epoch, Unwrap(region'))
                    THEN /\ queued[i].id \notin IdsOf(downstreams')
                         /\ queued[i].id \notin dropped
                               => /\ Len(Received(queued[i].id)) = 1
                                  /\ IsErrorOf(Received(queued[i].id)[1],
                                               "EpochNotMatch")
                    ELSE /\ queued[i].id \in IdsOf(downstreams')
                         /\ \A k \in 1 .. Len(Received(queued[i].id)) :
                               ~IsError(Received(queued[i].id)[k]) ]_vars

\* A downstream with a stale version and one with the current version were
\* queued; the replay turned the first away and made the second active.
C22_Witness ==
    /\ op = "on_region_ready"
    /\ next_id = 2
    /\ IdsOf(downstreams) = {1}
    /\ delivered # <<>>
    /\ delivered[1].to = 0
    /\ IsErrorOf(delivered[1].data, "EpochNotMatch")

(***************************************************************************)
(* C23.  on_region_ready replays every queued subscribe before any queued  *)
(* scan, and the queued scans in arrival order: what it sends is the       *)
(* errors of the queued downstreams it rejects, in queue order, followed   *)
(* by one Entries envelope per queued scan of a downstream it made active, *)
(* in arrival order.  A queued scan whose downstream was rejected at       *)
(* replay, or was unsubscribed while Pending, produces no envelope.        *)
(***************************************************************************)
\* The errors the replay of the queued subscribes sends.
ReplayErrors(queued, reg) ==
    LET turned_away ==
            SelectSeq(queued, LAMBDA d : /\ EpochIsStale(d.region_epoch, reg)
                                         /\ d.id \notin dropped)
    IN  [i \in 1 .. Len(turned_away) |->
            [to |-> turned_away[i].id,
             data |-> error_event(CompareRegionEpochErr(reg))]]

\* The envelopes the replay of the queued scans sends, given the ids made
\* active.
ReplayEntries(scans, active) ==
    LET served == SelectSeq(scans, LAMBDA s : s[1] \in active \ dropped)
    IN  [i \in 1 .. Len(served) |->
            [to |-> served[i][1],
             data |-> ChangeData(RegionId, 0,
                                 EntriesPayload(ScanRows(served[i][2])))]]

C23_ReplaySubscribesThenScans ==
    [][ (op' = "on_region_ready" /\ ~panicked' /\ IsSome(pending))
        => NewEnvelopes =
              ReplayErrors(Unwrap(pending).downstreams, Unwrap(region'))
              \o ReplayEntries(Unwrap(pending).scan, IdsOf(downstreams'))
      ]_vars

\* Two downstreams and scans were queued; the replay turned the first
\* downstream away with its error and then served the scan of the second.
C23_Witness ==
    /\ op = "on_region_ready"
    /\ steps = 5
    /\ next_id = 2
    /\ IdsOf(downstreams) = {1}
    /\ Len(delivered) = 2
    /\ delivered[1].to = 0 /\ IsErrorOf(delivered[1].data, "EpochNotMatch")
    /\ delivered[2].to = 1 /\ IsEntries(delivered[2].data)

(***************************************************************************)
(* C24.  subscribe(d) on an Active delegate whose region version equals    *)
(* d's epoch version appends d to the downstream list and sends no error,  *)
(* whatever d's conf_ver is.                                               *)
(***************************************************************************)
Active == IsNone(pending) /\ ~failed

C24_ConfVerIgnored ==
    [][ \A epoch \in Epochs :
           ( /\ op' = "subscribe"
             /\ Active
             /\ epoch.version = Unwrap(region).epoch.version
             /\ subscribe(epoch) )
           => /\ downstreams' = Append(downstreams,
                                       DownstreamNew(next_id, epoch))
              /\ delivered' = delivered ]_vars

\* An Active delegate has just taken a downstream whose conf_ver is behind
\* the region's.
C24_Witness ==
    /\ op = "subscribe"
    /\ Active
    /\ downstreams # <<>>
    /\ LET d == downstreams[Len(downstreams)] IN
       /\ d.id = next_id - 1
       /\ d.region_epoch.conf_ver < Unwrap(region).epoch.conf_ver
       /\ d.region_epoch.version = Unwrap(region).epoch.version

(***************************************************************************)
(* C25.  A send to a downstream whose receiving side is gone fails         *)
(* silently.  A broadcast with such a downstream among its targets still   *)
(* delivers the same envelope once to every other target, the worker does  *)
(* not panic and the downstream lists stay as they were; the flags are     *)
(* left alone by on_min_ts and set by fail as on any other call.           *)
(***************************************************************************)
\* A target of broadcast has lost its receiver.
SomeTargetGone == Subscribed \cap dropped # {}

\* The broadcast of this step reached every live target once, with one and
\* the same envelope, and the send failures changed nothing.
BroadcastSurvivesSendFailure ==
    /\ OneEnvelopeEach(Subscribed \ dropped, NewEnvelopes)
    /\ \A i \in 1 .. Len(NewEnvelopes) :
          NewEnvelopes[i].data = NewEnvelopes[1].data
    /\ ~panicked'
    /\ UNCHANGED << downstreams, pending >>

C25_SendFailureIsIgnored ==
    [][ SomeTargetGone =>
           /\ (op' = "on_min_ts" /\ resolver' # resolver)
                 => /\ BroadcastSurvivesSendFailure
                    /\ UNCHANGED << enabled, failed >>
           /\ \A err \in FailInputs :
                 (op' = "fail" /\ err.kind \in KnownErrorKinds /\ fail(err))
                 => /\ BroadcastSurvivesSendFailure
                    /\ ~enabled' /\ failed' ]_vars

\* The first of two active downstreams lost its receiver; the resolved ts
\* broadcast after that reached the second.
C25_Witness ==
    /\ op = "on_min_ts"
    /\ IdsOf(downstreams) = {0, 1}
    /\ dropped = {0}
    /\ Len(delivered) = 1
    /\ delivered[1].to = 1
    /\ IsResolvedTs(delivered[1].data)
    /\ enabled /\ ~failed /\ ~panicked

(***************************************************************************)
(* C26.  The error classifier emits only NotLeader, RegionNotFound or      *)
(* EpochNotMatch errors; given any other error it panics and no envelope   *)
(* is sent; and it runs only in fail (called directly or by on_admin) and  *)
(* in the epoch check of subscribe (called directly or by the replay of    *)
(* on_region_ready): an Error envelope is sent by no other operation.      *)
(***************************************************************************)
ClassifierCallers == {"fail", "sink_admin", "subscribe", "on_region_ready"}

C26_ClassifierKindsAndCallers ==
    [][ /\ \A i \in 1 .. Len(NewEnvelopes) :
              IsError(NewEnvelopes[i].data)
              => /\ Payload(NewEnvelopes[i].data).kind \in KnownErrorKinds
                 /\ op' \in ClassifierCallers
        /\ \A err \in FailInputs :
              (op' = "fail" /\ ErrorEventPanics(err) /\ fail(err))
              => (panicked' /\ delivered' = delivered) ]_vars

(***************************************************************************)
(* DownstreamID::new on several threads.  DOWNSTREAM_ID_ALLOC is a static  *)
(* AtomicUsize; fetch_add(1, SeqCst) is one atomic read-modify-write.  A   *)
(* call is a record of new_calls: its thread, the id it obtained (None     *)
(* until the fetch_add), whether it has returned, and the calls that had   *)
(* returned when it started.                                               *)
(***************************************************************************)
Threads == 1 .. MaxThreads

\* Mutant: the counter is read but the increment is lost.
FetchAddLosesIncrement(counter) == [ret |-> counter, value |-> counter]

\* AtomicUsize::fetch_add(1): the value before, and the counter after.
FetchAdd(counter) == [ret |-> counter, value |-> counter + 1]

\* The call thread t is in, if any (0: the thread is not in a call).
CallOf(t) ==
    IF \E i \in 1 .. Len(new_calls) :
           new_calls[i].thread = t /\ ~new_calls[i].returned
    THEN CHOOSE i \in 1 .. Len(new_calls) :
             new_calls[i].thread = t /\ ~new_calls[i].returned
    ELSE 0

Returned == { i \in 1 .. Len(new_calls) : new_calls[i].returned }

\* Thread t enters DownstreamID::new.
DownstreamIDNewCall(t) ==
    /\ CallOf(t) = 0
    /\ Len(new_calls) < MaxCalls
    /\ new_calls' = Append(new_calls,
                           [thread |-> t, id |-> None, returned |-> FALSE,
                            after |-> Returned])
    /\ UNCHANGED << delegate, next_id, delivered, dropped, panicked, ret,
                    steps, op, last_gone, rejected, lock_manager >>

\* DOWNSTREAM_ID_ALLOC.fetch_add(1, Ordering::SeqCst)
DownstreamIDNewFetchAdd(t) ==
    /\ CallOf(t) # 0
    /\ IsNone(new_calls[CallOf(t)].id)
    /\ LET r == FetchAdd(next_id) IN
       /\ next_id' = r.value
       /\ new_calls' = [new_calls EXCEPT ![CallOf(t)].id = Some(r.ret)]
    /\ UNCHANGED << delegate, delivered, dropped, panicked, ret, steps, op,
                    last_gone, rejected, lock_manager >>

\* The call returns DownstreamID(id).
DownstreamIDNewReturn(t) ==
    /\ CallOf(t) # 0
    /\ IsSome(new_calls[CallOf(t)].id)
    /\ new_calls' = [new_calls EXCEPT ![CallOf(t)].returned = TRUE]
    /\ UNCHANGED << delegate, next_id, delivered, dropped, panicked, ret,
                    steps, op, last_gone, rejected, lock_manager >>

NextAlloc ==
    \E t \in Threads :
       \/ DownstreamIDNewCall(t)
       \/ DownstreamIDNewFetchAdd(t)
       \/ DownstreamIDNewReturn(t)

SpecAlloc == Init /\ [][NextAlloc]_vars

(***************************************************************************)
(* C27.  Downstream ids are unique and handed out in increasing order:     *)
(* any two calls of DownstreamID::new, racing or not, obtain different     *)
(* ids, and a call that starts after another has returned obtains a        *)
(* larger id.                                                              *)
(***************************************************************************)
C27_IdsUniqueAndMonotone ==
    \A i, j \in 1 .. Len(new_calls) :
       (i # j /\ IsSome(new_calls[i].id) /\ IsSome(new_calls[j].id))
       => /\ new_calls[i].id # new_calls[j].id
          /\ i \in new_calls[j].after
                => Unwrap(new_calls[i].id) < Unwrap(new_calls[j].id)

\* Two calls raced on two threads and a third started after one of them
\* had returned; all three have their ids.
C27_Witness ==
    /\ Len(new_calls) >= 3
    /\ \A i \in 1 .. 3 : IsSome(new_calls[i].id)
    /\ new_calls[1].thread # new_calls[2].thread
    /\ new_calls[2].after = {}
    /\ Unwrap(new_calls[2].id) < Unwrap(new_calls[1].id)
    /\ new_calls[3].after # {}

(***************************************************************************)
(* C28.  Each on_batch call on an Active delegate completes and delivers   *)
(* exactly one Entries envelope to every downstream.                       *)
(***************************************************************************)
C28_BatchDeliversOneEnvelope ==
    [][ (op' = "on_batch" /\ Active)
        => /\ ~panicked'
           /\ OneEnvelopeEach(Subscribed \ dropped, NewEnvelopes)
           /\ \A i \in 1 .. Len(NewEnvelopes) :
                 IsEntries(NewEnvelopes[i].data) ]_vars

(***************************************************************************)
(* LockManager (server/lock_manager/mod.rs).  wait_for runs on the         *)
(* threads of the storage layer, one statement at a time; wake_up and      *)
(* has_waiter are called from any thread.  The waiter manager is a worker  *)
(* of its own (waiter_manager.rs, outside this source tree): it takes its  *)
(* tasks in order, holds the waiters, and gives up one count of            *)
(* waiter_count for every waiter it removes, woken up or timed out.        *)
(***************************************************************************)
\* Lock { ts, hash }
Locks == { [ts |-> 10, hash |-> 1] }

\* The commit_ts the wake_up calls carry.
WakeUpCommitTs == 15

\* hashes: Option<Vec<u64>>, as an optional set.
HashesInputs == { None, Some({1}), Some({2}) }

WaitForTask(start_ts, lock) ==
    [type |-> "WaitFor", start_ts |-> start_ts, lock |-> lock]
WakeUpTask(lock_ts, hashes, commit_ts) ==
    [type |-> "WakeUp", lock_ts |-> lock_ts, hashes |-> hashes,
     commit_ts |-> commit_ts]
DetectTask(start_ts, lock) ==
    [type |-> "Detect", start_ts |-> start_ts, lock |-> lock]
CleanUpTask(lock_ts) == [type |-> "CleanUp", lock_ts |-> lock_ts]

\* Mutant: the task is scheduled first and the counter raised afterwards.
WaitForBodyScheduleFirst == << "wait_for", "fetch_add", "detect" >>

\* Mutant: the deadlock detector is never asked.
WaitForBodyWithoutDetect == << "fetch_add", "wait_for" >>

\* The statements of LockManager::wait_for, in program order.
WaitForBody == << "fetch_add", "wait_for", "detect" >>

\* One more call of the LockManager is made.
LockTick(name) == steps < MaxLockCalls /\ steps' = steps + 1 /\ op' = name

\* A thread enters wait_for; the waiting transaction's start_ts is fresh.
WaitForCall(t, lock, is_first_lock) ==
    /\ IsNone(callers[t])
    /\ LockTick("wait_for")
    /\ callers' = [callers EXCEPT ![t] =
                      Some([pc |-> 1, start_ts |-> 20 + steps, lock |-> lock,
                            is_first_lock |-> is_first_lock])]
    /\ UNCHANGED << delegate, next_id, delivered, dropped, panicked, ret,
                    last_gone, rejected, new_calls, waiter_count,
                    waiter_mgr_tasks, detector_tasks, wait_table >>

\* The thread executes its next statement; after the last one it returns.
WaitForStep(t) ==
    /\ IsSome(callers[t])
    /\ LET c == Unwrap(callers[t])
           stmt == WaitForBody[c.pc]
       IN  /\ waiter_count' = IF stmt = "fetch_add"
                              THEN waiter_count + 1 ELSE waiter_count
           /\ waiter_mgr_tasks' =
                 IF stmt = "wait_for"
                 THEN Append(waiter_mgr_tasks, WaitForTask(c.start_ts, c.lock))
                 ELSE waiter_mgr_tasks
           /\ detector_tasks' =
                 IF stmt = "detect" /\ ~c.is_first_lock
                 THEN Append(detector_tasks, DetectTask(c.start_ts, c.lock))
                 ELSE detector_tasks
           /\ callers' = [callers EXCEPT ![t] =
                             IF c.pc = Len(WaitForBody) THEN None
                             ELSE Some([c EXCEPT !.pc = c.pc + 1])]
    /\ UNCHANGED << delegate, next_id, delivered, dropped, panicked, ret,
                    steps, op, last_gone, rejected, new_calls, wait_table >>

\* Mutant: the detector is cleaned up for every transaction.
WakeUpAlwaysCleansUp(lock_ts, hashes, commit_ts, is_pessimistic_txn) ==
    /\ LockTick("wake_up")
    /\ waiter_mgr_tasks' =
          IF IsSome(hashes)
          THEN Append(waiter_mgr_tasks,
                      WakeUpTask(lock_ts, Unwrap(hashes), commit_ts))
          ELSE waiter_mgr_tasks
    /\ detector_tasks' = Append(detector_tasks, CleanUpTask(lock_ts))
    /\ UNCHANGED << delegate, next_id, delivered, dropped, panicked, ret,
                    last_gone, rejected, new_calls, waiter_count, wait_table,
                    callers >>

\* LockManager::wake_up
wake_up(lock_ts, hashes, commit_ts, is_pessimistic_txn) ==
    /\ LockTick("wake_up")
    /\ waiter_mgr_tasks' =
          IF IsSome(hashes)
          THEN Append(waiter_mgr_tasks,
                      WakeUpTask(lock_ts, Unwrap(hashes), commit_ts))
          ELSE waiter_mgr_tasks
    /\ detector_tasks' =
          IF is_pessimistic_txn
          THEN Append(detector_tasks, CleanUpTask(lock_ts))
          ELSE detector_tasks
    /\ UNCHANGED << delegate, next_id, delivered, dropped, panicked, ret,
                    last_gone, rejected, new_calls, waiter_count, wait_table,
                    callers >>

\* LockManager::has_waiter
has_waiter == waiter_count > 0

\* The waiters a WakeUp task removes.
WokenUp(task) ==
    { w \in wait_table :
         w.lock.ts = task.lock_ts /\ w.lock.hash \in task.hashes }

\* The waiter manager takes its next task.
WaiterMgrHandle ==
    /\ waiter_mgr_tasks # <<>>
    /\ LET task == Head(waiter_mgr_tasks) IN
       IF task.type = "WaitFor"
       THEN /\ wait_table' = wait_table \cup
                                {[start_ts |-> task.start_ts,
                                  lock |-> task.lock]}
            /\ waiter_count' = waiter_count
       ELSE /\ wait_table' = wait_table \ WokenUp(task)
            /\ waiter_count' = waiter_count - Cardinality(WokenUp(task))
    /\ waiter_mgr_tasks' = Tail(waiter_mgr_tasks)
    /\ UNCHANGED << delegate, next_id, delivered, dropped, panicked, ret,
                    steps, op, last_gone, rejected, new_calls, detector_tasks,
                    callers >>

\* A waiter's timeout fires in the waiter manager.
WaiterTimeout(w) ==
    /\ w \in wait_table
    /\ wait_table' = wait_table \ {w}
    /\ waiter_count' = waiter_count - 1
    /\ UNCHANGED << delegate, next_id, delivered, dropped, panicked, ret,
                    steps, op, last_gone, rejected, new_calls,
                    waiter_mgr_tasks, detector_tasks, callers >>

NextLock ==
    \/ \E t \in Threads, lock \in Locks, is_first_lock \in BOOLEAN :
          WaitForCall(t, lock, is_first_lock)
    \/ \E t \in Threads : WaitForStep(t)
    \/ \E lock \in Locks, hashes \in HashesInputs,
          is_pessimistic_txn \in BOOLEAN :
          wake_up(lock.ts, hashes, WakeUpCommitTs, is_pessimistic_txn)
    \/ WaiterMgrHandle
    \/ \E w \in wait_table : WaiterTimeout(w)

SpecLock == Init /\ [][NextLock]_vars

(***************************************************************************)
(* C29.  wait_for raises waiter_count before it schedules the WaitFor      *)
(* task.  Hence has_waiter() reads true whenever a WaitFor task is in      *)
(* flight to the waiter manager, in every interleaving, and it reads true  *)
(* when wait_for returns, for as long as the waiter it registered waits    *)
(* (its task in flight, or the waiter held by the waiter manager).         *)
(***************************************************************************)
\* The start_ts of the waiters whose WaitFor task is in flight.
InFlight ==
    { waiter_mgr_tasks[i].start_ts :
         i \in { k \in 1 .. Len(waiter_mgr_tasks) :
                    waiter_mgr_tasks[k].type = "WaitFor" } }

\* The start_ts of the waiters that wait.
Waiting == InFlight \cup { w.start_ts : w \in wait_table }

IsWriteEvent(req) ==
    /\ req.cmd_type = "Put"
    /\ req.cf = "write"
    /\ ~decode_write(req.key, req.write, EventRowDefault).skip

HoldsTwoWritesOfOneKey(requests) ==
    \E i, j \in 1 .. Len(requests) :
       /\ i < j
       /\ IsWriteEvent(requests[i]) /\ IsWriteEvent(requests[j])
       /\ requests[i].key.raw = requests[j].key.raw

IsDefaultPut(req) == req.cmd_type = "Put" /\ req.cf = "default"

\* A value and the write record of the same raw key, in either order.
ValueAndWrite(requests) ==
    /\ Len(requests) = 2
    /\ requests[1].key.raw = requests[2].key.raw
    /\ \E i, j \in 1 .. 2 :
          /\ IsDefaultPut(requests[i])
          /\ IsWriteEvent(requests[j])
          /\ requests[j].write.write_type \in {"Put", "Delete"}
          /\ IsNone(requests[j].write.short_value)

DefaultValueOf(requests) ==
    requests[CHOOSE i \in 1 .. 2 : IsDefaultPut(requests[i])].value

C30_WriteAssertOnlyOnDuplicateWrite ==
    [][ \A index \in BatchIndexes, requests \in BatchInputs :
           (op' = "sink_data" /\ Active /\ sink_data(index, requests))
           => /\ panicked' => HoldsTwoWritesOfOneKey(requests)
              /\ ValueAndWrite(requests)
                    => /\ ~panicked'
                       /\ \A i \in 1 .. Len(NewEnvelopes) :
                             LET rows == Payload(NewEnvelopes[i].data).entries
                             IN  /\ Len(rows) = 1
                                 /\ rows[1].r_type = "Commit"
                                 /\ rows[1].value = DefaultValueOf(requests)
      ]_vars

(***************************************************************************)
(* C31.  In one batch, a lock-CF put (a Put or Delete lock without short   *)
(* value) and a default-CF put of the same raw key, in either order,       *)
(* yield exactly one Prewrite row for the key, its value the default-CF    *)
(* value, and afterwards the resolver tracks (lock.ts, raw key).           *)
(***************************************************************************)
\* The request becomes a prewrite event: a lock-CF put that is not skipped.
IsLockEvent(req) ==
    /\ req.cmd_type = "Put"
    /\ req.cf = "lock"
    /\ ~decode_lock(req.key, req.lock, EventRowDefault).skip

\* A value and the lock of the same raw key, in either order.
ValueAndLock(requests) ==
    /\ Len(requests) = 2
    /\ requests[1].key.raw = requests[2].key.raw
    /\ \E i, j \in 1 .. 2 :
          /\ IsDefaultPut(requests[i])
          /\ IsLockEvent(requests[j])
          /\ IsNone(requests[j].lock.short_value)

LockOf(requests) ==
    requests[CHOOSE i \in 1 .. 2 : IsLockEvent(requests[i])].lock

C31_LockAndDefaultMerge ==
    [][ \A index \in BatchIndexes, requests \in BatchInputs :
           ( /\ op' = "sink_data"
             /\ Active
             /\ ValueAndLock(requests)
             /\ sink_data(index, requests) )
           => /\ ~panicked'
              /\ <<LockOf(requests).ts, requests[1].key.raw>>
                    \in Unwrap(resolver').locks
              /\ OneEnvelopeEach(Subscribed \ dropped, NewEnvelopes)
              /\ \A i \in 1 .. Len(NewEnvelopes) :
                    LET rows == Payload(NewEnvelopes[i].data).entries IN
                    /\ Len(rows) = 1
                    /\ rows[1].r_type = "Prewrite"
                    /\ rows[1].key = requests[1].key.raw
                    /\ rows[1].start_ts = LockOf(requests).ts
                    /\ rows[1].op_type = LockOf(requests).lock_type
                    /\ rows[1].value = DefaultValueOf(requests) ]_vars

\* A batch with the prewrite of "a" and its value was delivered as one row
\* and the resolver, empty before, tracks the lock.
C31_Witness ==
    /\ op = "sink_data"
    /\ steps = 3
    /\ ~panicked
    /\ IsSome(resolver)
    /\ Unwrap(resolver).locks = {<<2, "a">>}
    /\ Len(delivered) = 1
    /\ IsEntries(delivered[1].data)
    /\ Payload(delivered[1].data).entries
          = << [start_ts |-> 2, commit_ts |-> 0, key |-> "a", value |-> "v",
                op_type |-> "Put", r_type |-> "Prewrite"] >>

(***************************************************************************)
(* C32.  A write-CF record (Put, Delete or Rollback) of a live batch       *)
(* untracks (start_ts, raw key) in the resolver; once no key of start_ts   *)
(* is tracked, start_ts no longer bounds the resolved timestamps that      *)
(* follow.  When the key was not tracked the resolver is left as it was.   *)
(* In both cases the row is emitted.                                       *)
(***************************************************************************)
\* A batch that is one write event.
SingleWrite(requests) == Len(requests) = 1 /\ IsWriteEvent(requests[1])

StartTsOf(locks) == { l[1] : l \in locks }

C32_WriteUntracksLock ==
    [][ \A index \in BatchIndexes, requests \in BatchInputs :
           ( /\ op' = "sink_data"
             /\ Active
             /\ SingleWrite(requests)
             /\ sink_data(index, requests) )
           => LET start_ts == requests[1].write.start_ts
                  raw == requests[1].key.raw
                  before == Unwrap(resolver).locks
                  after == Unwrap(resolver').locks
              IN  /\ ~panicked'
                  /\ after = before \ {<<start_ts, raw>>}
                  /\ <<start_ts, raw>> \notin before => resolver' = resolver
                  /\ start_ts \notin StartTsOf(after)
                        => \A min_ts \in MinTsInputs :
                              LET r == Resolve(Unwrap(resolver'), min_ts) IN
                              IsSome(r.ts)
                              => Unwrap(r.ts) =
                                    SmallestOf(min_ts, StartTsOf(before)
                                                          \ {start_ts})
                  /\ OneEnvelopeEach(Subscribed \ dropped, NewEnvelopes)
                  /\ \A i \in 1 .. Len(NewEnvelopes) :
                        LET rows == Payload(NewEnvelopes[i].data).entries IN
                        /\ Len(rows) = 1
                        /\ rows[1].key = raw
                        /\ rows[1].start_ts = start_ts ]_vars

\* The resolved ts stood at 2 behind the lock of "a"; the commit of "a" was
\* delivered and only the lock of "b" at 3 is tracked.
C32_Witness ==
    /\ op = "sink_data"
    /\ ~panicked
    /\ IsSome(resolver)
    /\ Unwrap(resolver).locks = {<<3, "b">>}
    /\ Unwrap(resolver).resolved_ts = 2
    /\ Len(delivered) = 2
    /\ IsResolvedTs(delivered[1].data)
    /\ IsEntries(delivered[2].data)
    /\ Payload(delivered[2].data).entries[1].r_type = "Commit"
    /\ Payload(delivered[2].data).entries[1].start_ts = 2

(***************************************************************************)
(* C33.  A lock record of a type other than Put and Delete, and a write    *)
(* record of a type other than Put, Delete and Rollback, is skipped: it    *)
(* yields no row in on_scan and none in a live batch, a skipped lock is    *)
(* never tracked and a skipped write untracks nothing, so the resolver     *)
(* and the resolved timestamp move only by the other records.              *)
(***************************************************************************)
\* The types that fall into the `other` arm of decode_lock and decode_write.
UnsupportedLockTypes == {"Lock", "Pessimistic"}
UnsupportedWriteTypes == {"Lock"}

\* The request is a lock-CF or write-CF put of an unsupported type.
SkippedRequest(req) ==
    /\ req.cmd_type = "Put"
    /\ \/ req.cf = "lock" /\ req.lock.lock_type \in UnsupportedLockTypes
       \/ req.cf = "write" /\ req.write.write_type \in UnsupportedWriteTypes

\* The scanned entry is a record of an unsupported type.
SkippedEntry(entry) ==
    /\ IsSome(entry)
    /\ \/ /\ Unwrap(entry).tag = "Prewrite"
          /\ Unwrap(entry).lock.lock_type \in UnsupportedLockTypes
       \/ /\ Unwrap(entry).tag = "Commit"
          /\ Unwrap(entry).write.write_type \in UnsupportedWriteTypes

\* The start timestamp a record carries.
RequestTs(req) == IF req.cf = "lock" THEN req.lock.ts ELSE req.write.start_ts
EntryTs(e) == IF e.tag = "Prewrite" THEN e.lock.ts ELSE e.write.start_ts

\* The records of a batch that are not skipped.
KeptRequests(requests) ==
    SelectSeq(requests, LAMBDA req : req.cmd_type = "Put"
                                     /\ ~SkippedRequest(req))

C33_UnsupportedTypesAreSkipped ==
    [][ /\ \A index \in BatchIndexes, requests \in BatchInputs :
              ( /\ op' = "sink_data"
                /\ Active
                /\ \E k \in 1 .. Len(requests) : SkippedRequest(requests[k])
                /\ sink_data(index, requests) )
              => LET kept == KeptRequests(requests)
                     keptOf(cf) == { <<RequestTs(kept[k]), kept[k].key.raw>> :
                                       k \in { j \in 1 .. Len(kept) :
                                                 kept[j].cf = cf } }
                     before == Unwrap(resolver).locks
                     after == Unwrap(resolver').locks
                 IN  /\ after \subseteq before \cup keptOf("lock")
                     /\ before \ keptOf("write") \subseteq after
                     /\ [Unwrap(resolver') EXCEPT !.locks = {}]
                           = [Unwrap(resolver) EXCEPT !.locks = {}]
                     /\ \A min_ts \in MinTsInputs :
                           Resolve(Unwrap(resolver'), min_ts).ts
                              = Resolve([Unwrap(resolver) EXCEPT !.locks =
                                           (before \ keptOf("write"))
                                              \cup keptOf("lock")],
                                        min_ts).ts
                     /\ \A i \in 1 .. Len(NewEnvelopes) :
                           LET rows == Payload(NewEnvelopes[i].data).entries
                           IN  /\ Len(rows) =
                                     Cardinality({ kept[k].key.raw :
                                                     k \in 1 .. Len(kept) })
                               /\ \A j \in 1 .. Len(rows),
                                     k \in 1 .. Len(requests) :
                                     SkippedRequest(requests[k])
                                     => <<rows[j].start_ts, rows[j].key>>
                                           # <<RequestTs(requests[k]),
                                               requests[k].key.raw>>
        /\ \A id \in Ids, entries \in TailScans :
              ( /\ op' = "on_scan"
                /\ \E k \in 1 .. Len(entries) : SkippedEntry(entries[k])
                /\ on_scan(id, entries) )
              => /\ resolver' = resolver
                 /\ \A i \in 1 .. Len(NewEnvelopes) :
                       LET rows == Payload(NewEnvelopes[i].data).entries
                       IN  /\ Len(rows) <=
                                 Len(SelectSeq(entries,
                                        LAMBDA e : ~SkippedEntry(e)))
                           /\ \A j \in 1 .. Len(rows),
                                 k \in 1 .. Len(entries) :
                                 SkippedEntry(entries[k])
                                 => <<rows[j].start_ts, rows[j].key>>
                                       # <<EntryTs(Unwrap(entries[k])),
                                           Unwrap(entries[k]).key.raw>> ]_vars

\* A scan with a Pessimistic lock and a Lock write was delivered as the one
\* row of its Put lock and the marker; then a batch with a Lock lock of "a"
\* at 1 and a Lock write of "a" was delivered as the one prewrite row of
\* "b", and the resolver tracks only that prewrite.
C33_Witness ==
    /\ op = "sink_data"
    /\ ~panicked
    /\ IsSome(resolver)
    /\ Unwrap(resolver).locks = {<<3, "b">>}
    /\ Len(delivered) = 2
    /\ IsEntries(delivered[1].data)
    /\ Len(Payload(delivered[1].data).entries) = 2
    /\ Payload(delivered[1].data).entries[1].r_type = "Prewrite"
    /\ Payload(delivered[1].data).entries[1].key = "a"
    /\ Payload(delivered[1].data).entries[2].r_type = "Initialized"
    /\ IsEntries(delivered[2].data)
    /\ Payload(delivered[2].data).entries
          = << [start_ts |-> 3, commit_ts |-> 0, key |-> "b", value |-> "",
                op_type |-> "Put", r_type |-> "Prewrite"] >>

(***************************************************************************)
(* C34.  sink_admin with an admin command other than Split, BatchSplit,    *)
(* PrepareMerge, CommitMerge and RollbackMerge sends no envelope and       *)
(* leaves enabled, failed, the pending and active downstreams and the      *)
(* resolver as they were.                                                  *)
(***************************************************************************)
C34_OtherAdminIsNoop ==
    [][ \A cmd_type \in AdminCmdTypes \ FaultAdminCmdTypes,
           response \in AdminResponses :
           (op' = "sink_admin" /\ sink_admin(cmd_type, response))
           => /\ NewEnvelopes = <<>>
              /\ ~panicked'
              /\ UNCHANGED << enabled, failed, downstreams, pending,
                              resolver, region, dropped >> ]_vars

\* An admin command went by a delegate that serves a downstream and holds
\* a resolver: it has not failed.
C34_Witness ==
    /\ op = "sink_admin"
    /\ ~panicked
    /\ ~failed
    /\ enabled
    /\ IsSome(resolver)
    /\ downstreams # <<>>

C36_ReadyAtMostOnce ==
    [][ /\ (op' = "on_region_ready" /\ IsSome(resolver))
           => /\ panicked'
              /\ UNCHANGED << delegate, delivered >>
        /\ IsNone(pending)
           => /\ IsNone(pending')
              /\ IsSome(resolver)
              /\ op' = "on_region_ready" => panicked' ]_vars

\* on_region_ready was called on an Active delegate: the worker aborted.
C36_Witness ==
    /\ op = "on_region_ready"
    /\ panicked
    /\ IsNone(pending)
    /\ IsSome(resolver)
    /\ downstreams # <<>>

(***************************************************************************)
(* C37.  fail(err) on a delegate that is still Pending, err one the        *)
(* classifier knows, delivers one Error envelope of that kind to every     *)
(* downstream queued in the pending buffer (whose receiver still exists)   *)
(* and to nobody else, keeps the buffer, and clears enabled.               *)
(***************************************************************************)
C37_FailWhilePending ==
    [][ \A err \in FailInputs :
           ( /\ op' = "fail"
             /\ IsSome(pending)
             /\ err.kind \in KnownErrorKinds
             /\ fail(err) )
           => /\ OneEnvelopeEach(IdsOf(Unwrap(pending).downstreams) \ dropped,
                                 NewEnvelopes)
              /\ \A i \in 1 .. Len(NewEnvelopes) :
                    IsErrorOf(NewEnvelopes[i].data, err.kind)
              /\ ~enabled'
              /\ failed'
              /\ pending' = pending
              /\ downstreams' = <<>> ]_vars

\* Two downstreams were queued when the delegate failed; each received the
\* error and the region never became ready.
C37_Witness ==
    /\ op = "fail"
    /\ ~panicked
    /\ IsSome(pending)
    /\ IsNone(resolver)
    /\ failed
    /\ ~enabled
    /\ Len(Unwrap(pending).downstreams) = 2
    /\ Len(delivered) = 2
    /\ { delivered[i].to : i \in 1 .. 2 } = IdsOf(Unwrap(pending).downstreams)
    /\ \A i \in 1 .. 2 : IsError(delivered[i].data)

(***************************************************************************)
(* C38.  Every envelope the delegate sends holds exactly one Event, whose  *)
(* region_id is the delegate's; the envelope of a scan, of a resolved ts   *)
(* and of an error has index 0, the envelope of a batch the index of the   *)
(* batch.                                                                  *)
(***************************************************************************)
C38_OneEventOfThisRegion ==
    [][ \A i \in 1 .. Len(NewEnvelopes) :
           LET cd == NewEnvelopes[i].data IN
           /\ Len(cd.events) = 1
           /\ IsSome(cd.events[1].event)
           /\ cd.events[1].region_id = RegionId
           /\ IF op' = "sink_data"
              THEN IsEntries(cd) /\ cd.events[1].index \in BatchIndexes
              ELSE cd.events[1].index = 0
           /\ (IsError(cd) \/ IsResolvedTs(cd)) => cd.events[1].index = 0
           /\ op' = "on_scan" => IsEntries(cd)
           /\ op' = "on_min_ts" => IsResolvedTs(cd) ]_vars

\* An error (a stale subscriber turned away at replay), a resolved ts and
\* the rows of a scan were sent, each as one event of region 1 at index 0.
C38_Witness ==
    /\ op = "on_scan"
    /\ ~panicked
    /\ Len(delivered) = 3
    /\ IsError(delivered[1].data)
    /\ IsResolvedTs(delivered[2].data)
    /\ IsEntries(delivered[3].data)
    /\ \A i \in 1 .. 3 :
          /\ Len(delivered[i].data.events) = 1
          /\ delivered[i].data.events[1].region_id = RegionId
          /\ delivered[i].data.events[1].index = 0

(***************************************************************************)
(* C39.  Every call of LockManager::wait_for schedules its WaitFor task on *)
(* the waiter manager, and by its return has scheduled a Detect task on    *)
(* the detector if and only if is_first_lock is false.                     *)
(***************************************************************************)
\* The thread's call of wait_for returns in this step.
WaitForReturns(t) == IsSome(callers[t]) /\ IsNone(callers'[t])

\* The thread's call of wait_for executes a statement in this step.
WaitForRuns(t) == IsSome(callers[t]) /\ callers'[t] # callers[t]

\* The tasks of a queue, as a set.
TasksOf(queue) == { queue[i] : i \in 1 .. Len(queue) }

C39_WaitForSchedulesWaitAndDetect ==
    [][ \A t \in Threads :
           WaitForRuns(t)
           => LET c == Unwrap(callers[t])
                  wait == WaitForTask(c.start_ts, c.lock)
                  detect == DetectTask(c.start_ts, c.lock)
              IN  /\ c.pc = 2
                     => waiter_mgr_tasks' = Append(waiter_mgr_tasks, wait)
                  /\ c.pc # 2 => waiter_mgr_tasks' = waiter_mgr_tasks
                  /\ c.pc < 3 => /\ ~WaitForReturns(t)
                                 /\ Unwrap(callers'[t]).pc = c.pc + 1
                                 /\ detector_tasks' = detector_tasks
                  /\ WaitForReturns(t)
                     => /\ c.pc = 3
                        /\ detect \in TasksOf(detector_tasks')
                              <=> ~c.is_first_lock
                        /\ detect \notin TasksOf(detector_tasks)
                        /\ TasksOf(detector_tasks') \ {detect}
                              = TasksOf(detector_tasks)
                        /\ Len(detector_tasks') =
                              Len(detector_tasks)
                                 + (IF c.is_first_lock THEN 0 ELSE 1) ]_vars

\* Two calls have returned, one for a first lock and one not: both waits
\* are queued and one deadlock check is.
C39_Witness ==
    /\ \A t \in Threads : IsNone(callers[t])
    /\ Len(waiter_mgr_tasks) = 2
    /\ \A i \in 1 .. 2 : waiter_mgr_tasks[i].type = "WaitFor"
    /\ Len(detector_tasks) = 1
    /\ detector_tasks[1].type = "Detect"
    /\ detector_tasks[1].start_ts \in
          { waiter_mgr_tasks[i].start_ts : i \in 1 .. 2 }
    /\ waiter_count = 2

(***************************************************************************)
(* C40.  LockManager::wake_up schedules a WakeUp task on the waiter        *)
(* manager if and only if hashes is Some, and a CleanUp task for lock_ts   *)
(* on the detector if and only if is_pessimistic_txn is true; with hashes  *)
(* None and a transaction that is not pessimistic it schedules nothing.    *)
(* It never changes waiter_count itself.                                   *)
(***************************************************************************)
C40_WakeUpSchedulesByArguments ==
    [][ \A lock \in Locks, hashes \in HashesInputs,
           is_pessimistic_txn \in BOOLEAN :
           ( /\ op' = "wake_up"
             /\ wake_up(lock.ts, hashes, WakeUpCommitTs, is_pessimistic_txn) )
           => /\ IF IsSome(hashes)
                 THEN waiter_mgr_tasks' =
                         Append(waiter_mgr_tasks,
                                WakeUpTask(lock.ts, Unwrap(hashes),
                                           WakeUpCommitTs))
                 ELSE waiter_mgr_tasks' = waiter_mgr_tasks
              /\ IF is_pessimistic_txn
                 THEN detector_tasks' =
                         Append(detector_tasks, CleanUpTask(lock.ts))
                 ELSE detector_tasks' = detector_tasks
              /\ (IsNone(hashes) /\ ~is_pessimistic_txn)
                    => UNCHANGED lock_manager
              /\ waiter_count' = waiter_count
              /\ wait_table' = wait_table
              /\ callers' = callers ]_vars

\* A waiter is counted and queued; two wake_up calls followed, of which one
\* carried hashes and one was of a pessimistic transaction: one WakeUp and
\* one CleanUp are queued and the count still reads 1.
C40_Witness ==
    /\ op = "wake_up"
    /\ steps = 3
    /\ waiter_count = 1
    /\ Len(waiter_mgr_tasks) = 2
    /\ waiter_mgr_tasks[1].type = "WaitFor"
    /\ waiter_mgr_tasks[2].type = "WakeUp"
    /\ detector_tasks = << CleanUpTask(10) >>
=============================================================================
